---- MODULE Spec2Model ----
(***************************************************************************)
(* A model of the switch repository's glue programs:                       *)
(*   - switch_model/utilities/multi_scenario.py (and its older copy        *)
(*     multiscenario.py): MultiScenarioParamChange, MultiScenario,         *)
(*     GurobiMultiScenarioSolver and load_inputs;                          *)
(*   - database/baseline_creation/get_inputs_good_JS_python2_baseline.py:  *)
(*     write_tab, shutdown and main;                                       *)
(*   - switch_model/tools/graphing/compare.py: main;                       *)
(*   - switch_model/tools/new.py: main;                                    *)
(*   - switch_model/utilities/results_info.py.                             *)
(* Each program has its own specification (SpecAdd, SpecCtx, SpecLoad,     *)
(* SpecInputs, SpecExtract, SpecTab, SpecCompare, ...) over the same       *)
(* variables;                                                              *)
(* the variables of the programs a specification does not run stay idle.   *)
(*                                                                         *)
(* Python's None is the empty tuple <<>> and a present value v is <<v>>    *)
(* wherever a field may hold either.                                       *)
(***************************************************************************)
EXTENDS Integers, Sequences, FiniteSets, TLC

VARIABLES
    pc,            \* position of the running program
    outcome,       \* how the last operation ended: "none", "ok" or the exception raised
    excArg,        \* what the raised exception's message names
    variant,       \* which copy of the solver plugin runs: "multi_scenario" or "multiscenario"
    paramValue,    \* the pyomo model's mutable parameters: key -> value
    varStale,      \* the pyomo model's variables: var -> stale flag
    varValue,      \* the pyomo model's variables: var -> value (None or a number)
    referenced,    \* solver._referenced_variables: var -> reference count
    scenarios,     \* solver.scenarios / mod.scenarios: the list of MultiScenario objects
    gurobi_model,  \* solver._solver_model: the gurobipy model's multi-scenario attributes
    stack,         \* the with-blocks currently open, innermost last
    vars_to_load,  \* the argument of the last _load_vars call
    csvRows,       \* the rows of multi_scenario.csv
    modScenarios,  \* mod.scenarios as published by load_inputs (None until assigned)
    tunnel,        \* extraction script: the SSH tunnel: "absent", "start_failed", "running", "stopped"
    db_connection, \* extraction script: the connection: "absent", "open", "closed"
    db_cursor,     \* extraction script: the cursor: "absent", "open", "closed"
    connectAttempts, \* extraction script: calls of psycopg2.connect
    queries,       \* extraction script: calls of db_cursor.execute
    s_details,     \* extraction script: the optional ids of the scenario row (None until read)
    step,          \* extraction script: the next input table of main
    announced,     \* extraction script: the tables announced on standard output, in order
    files,         \* extraction script: the files main has opened for writing
    tabArgs,       \* write_tab: its arguments fname, headers and the cursor's rows
    tabFile,       \* write_tab: the file it writes: name, content, state of the handle
    cmpArgs,       \* compare.main: the parsed command line
    created,       \* compare.main: the Scenario objects created, in order
    graphCalls,    \* compare.main: the calls of graph_scenarios
    setCalls,      \* _set_instance: the methods it has called, in order
    setResult,     \* _set_instance: what it returned (None until it returns)
    newType,       \* new.py: the type argument of the last invocation
    templates,     \* new.py: the files of the package's templates directory: name -> content
    workdir,       \* new.py: the files of the working directory: name -> content
    copyLog,       \* new.py: the copies shutil.copyfile has made, in order
    general_info_data,   \* results_info: the list _general_info_data
    scenario_info_data,  \* results_info: the DataFrame _scenario_info_data
    infoCalls,     \* results_info: the calls made so far, in order
    reports        \* results_info: the reports save_info has written, in order

scenVars == <<variant, paramValue, varStale, varValue, referenced, scenarios,
              gurobi_model, stack, vars_to_load, csvRows, modScenarios>>

extractVars == <<tunnel, db_connection, db_cursor, connectAttempts, queries,
                 s_details, step, announced, files>>

tabVars == <<tabArgs, tabFile>>

cmpVars == <<cmpArgs, created, graphCalls>>

setVars == <<setCalls, setResult>>

newVars == <<newType, templates, workdir, copyLog>>

infoVars == <<general_info_data, scenario_info_data, infoCalls, reports>>

utilVars == <<setVars, newVars, infoVars>>

toolVars == <<extractVars, tabVars, cmpVars, utilVars>>

vars == <<pc, outcome, excArg, scenVars, toolVars>>

\* ------------------------------------------------------------------------
\* Bounds
\* ------------------------------------------------------------------------

\* Longest list of scenarios handed to the solver.
MaxScen == 3

\* Longest list of changes of a scenario that user code enters and leaves.
MaxChanges == 2

\* Deepest nesting of with-blocks.
MaxDepth == 2

\* Most rows of multi_scenario.csv.
MaxCsvRows == 2

\* ------------------------------------------------------------------------
\* The pyomo model the plugin is run on: two variables x, y and the
\* objective cost[x]*x + cost[y]*y, cost a mutable parameter indexed by the
\* variable.  A coefficient of 0 makes the term vanish from the objective.
\* ------------------------------------------------------------------------

None == <<>>

Some(v) == <<v>>

\* _set_instance not called.
SetIdle ==
    /\ setCalls = <<>>
    /\ setResult = None

\* new.py not running.
NewIdle ==
    /\ newType = "none"
    /\ templates = <<>>
    /\ workdir = <<>>
    /\ copyLog = <<>>

\* results_info as imported: an empty list and an empty DataFrame.
InfoIdle ==
    /\ general_info_data = <<>>
    /\ scenario_info_data = [index |-> <<>>, columns |-> <<>>, cells |-> <<>>]
    /\ infoCalls = <<>>
    /\ reports = <<>>

UtilsIdle == SetIdle /\ NewIdle /\ InfoIdle

\* The programs other than the solver plugin, not running.
ToolsIdle ==
    /\ UtilsIdle
    /\ tunnel = "absent"
    /\ db_connection = "absent"
    /\ db_cursor = "absent"
    /\ connectAttempts = 0
    /\ queries = 0
    /\ s_details = None
    /\ step = 0
    /\ announced = <<>>
    /\ files = {}
    /\ tabArgs = None
    /\ tabFile = None
    /\ cmpArgs = None
    /\ created = <<>>
    /\ graphCalls = <<>>

Vars == {"x", "y"}

\* Declaration order of the variables: the order of the objective's terms, of
\* component_data_objects(sort=False) and of _pyomo_var_to_solver_var_map.keys().
VarOrder == <<"x", "y">>

Values == {0, 1, 2}

ParamKey(param, indexes) == <<param, indexes>>

CoefParam(v) == ParamKey("cost", <<v>>)

ParamKeys == {CoefParam(v) : v \in Vars}

Variants == {"multi_scenario", "multiscenario"}

Slots == 0 .. (MaxScen - 1)

Min(a, b) == IF a < b THEN a ELSE b

Range(s) == {s[k] : k \in DOMAIN s}

EmptyMap == [v \in {} |-> 0]

\* generate_standard_repn(objective.expr): the linear terms in declaration
\* order, every term whose coefficient evaluates to 0 left out (pyomo's
\* standard_repn filters zero coefficients), as parallel tuples.
generate_standard_repn(pv) ==
    LET nz == SelectSeq(VarOrder, LAMBDA v : pv[CoefParam(v)] # 0)
    IN  [linear_vars  |-> nz,
         linear_coefs |-> [k \in 1 .. Len(nz) |-> pv[CoefParam(nz[k])]]]

\* ------------------------------------------------------------------------
\* MultiScenarioParamChange
\* ------------------------------------------------------------------------

MultiScenarioParamChange(param, indexes, new_value) ==
    [param |-> param, indexes |-> indexes, new_value |-> new_value, old_value |-> None]

ChangeKey(ch) == ParamKey(ch.param, ch.indexes)

\* apply_change: old_value is captured only while it is still None.
apply_change(ch, pv) ==
    LET key == ChangeKey(ch)
    IN  [change |-> IF ch.old_value = None
                    THEN [ch EXCEPT !.old_value = Some(pv[key])]
                    ELSE ch,
         params |-> [pv EXCEPT ![key] = ch.new_value]]

undo_change(ch, pv) == [pv EXCEPT ![ChangeKey(ch)] = ch.old_value[1]]

\* ------------------------------------------------------------------------
\* MultiScenario
\* ------------------------------------------------------------------------

\* __init__: results is None in multi_scenario.py and an empty ComponentMap in
\* multiscenario.py.
MultiScenario(v, name, changes) ==
    [name    |-> name,
     changes |-> changes,
     results |-> IF v = "multi_scenario" THEN None ELSE Some(EmptyMap),
     model   |-> "None"]

\* __call__: scenario(model) stores the model and returns the scenario.
__call__(scen) == [scen EXCEPT !.model = "model"]

\* The guard of the variable loops: `results is not None` in multi_scenario.py,
\* `len(results) != 0` in multiscenario.py.
HasResults(v, scen) ==
    IF v = "multi_scenario"
    THEN scen.results # None
    ELSE DOMAIN scen.results[1] # {}

\* for change in self.changes: change.apply_change(self.model); a change whose
\* parameter or index the model does not have raises and ends the loop.
RECURSIVE ApplyFrom(_, _, _)
ApplyFrom(chs, k, pv) ==
    IF k > Len(chs)
    THEN [changes |-> chs, params |-> pv, err |-> "none"]
    ELSE IF ChangeKey(chs[k]) \notin DOMAIN pv
         THEN [changes |-> chs, params |-> pv, err |-> "KeyError"]
         ELSE LET r == apply_change(chs[k], pv)
              IN  ApplyFrom([chs EXCEPT ![k] = r.change], k + 1, r.params)

\* for var in component_data_objects(Var): if not var.stale: var.value = results[var];
\* results[var] raises KeyError for a variable the results do not hold.
RECURSIVE LoadResultsFrom(_, _, _, _)
LoadResultsFrom(k, res, vStale, vValue) ==
    IF k > Len(VarOrder)
    THEN [varValue |-> vValue, err |-> "none"]
    ELSE LET var == VarOrder[k]
         IN  IF vStale[var]
             THEN LoadResultsFrom(k + 1, res, vStale, vValue)
             ELSE IF var \notin DOMAIN res
                  THEN [varValue |-> vValue, err |-> "KeyError"]
                  ELSE LoadResultsFrom(k + 1, res, vStale,
                                       [vValue EXCEPT ![var] = Some(res[var])])

__enter__(v, scen, pv, vStale, vValue) ==
    LET a  == ApplyFrom(scen.changes, 1, pv)
        s1 == [scen EXCEPT !.changes = a.changes]
    IN  IF a.err # "none"
        THEN [scen |-> s1, params |-> a.params, varValue |-> vValue, err |-> a.err]
        ELSE IF ~HasResults(v, s1)
             THEN [scen |-> s1, params |-> a.params, varValue |-> vValue, err |-> "none"]
             ELSE LET l == LoadResultsFrom(1, s1.results[1], vStale, vValue)
                  IN  [scen |-> s1, params |-> a.params,
                       varValue |-> l.varValue, err |-> l.err]

\* for change in self.changes: change.undo_change(self.model), first change first.
RECURSIVE UndoFrom(_, _, _)
UndoFrom(chs, k, pv) ==
    IF k > Len(chs) THEN pv ELSE UndoFrom(chs, k + 1, undo_change(chs[k], pv))

__exit__(v, scen, pv, vStale, vValue) ==
    [scen     |-> [scen EXCEPT !.model = "None"],
     params   |-> UndoFrom(scen.changes, 1, pv),
     varValue |-> IF HasResults(v, scen)
                  THEN [var \in Vars |-> IF vStale[var] THEN vValue[var] ELSE None]
                  ELSE vValue]

\* ------------------------------------------------------------------------
\* GurobiMultiScenarioSolver._add_scenarios
\* ------------------------------------------------------------------------

\* The gurobipy model before _add_scenarios: no scenario, no name or objective
\* coefficient written in any scenario slot.
NewGurobiModel ==
    [NumScenarios   |-> 0,
     ScenarioNumber |-> 0,
     ScenNName      |-> [i \in Slots |-> None],
     ScenNObj       |-> [i \in Slots |-> [var \in Vars |-> None]],
     ScenNX         |-> [i \in Slots |-> [var \in Vars |-> 0]]]

\* gurobi_model.Params.ScenarioNumber = i; gurobi_model.ScenNName = scenario.name:
\* gurobipy writes ScenN* attributes into the slot ScenarioNumber selects.
SelectScenario(gm, i, name) ==
    [gm EXCEPT !.ScenarioNumber = i, !.ScenNName[i] = Some(name)]

\* for base_coef, scenario_coef, pyomo_var in zip(base_obj.linear_coefs,
\* scenario_obj.linear_coefs, base_obj.linear_vars): zip stops at the shortest.
RECURSIVE UpdateCoefsFrom(_, _, _, _)
UpdateCoefsFrom(k, base_obj, scenario_obj, gm) ==
    IF k > Min(Len(base_obj.linear_coefs),
               Min(Len(scenario_obj.linear_coefs), Len(base_obj.linear_vars)))
    THEN gm
    ELSE LET base_coef     == base_obj.linear_coefs[k]
             scenario_coef == scenario_obj.linear_coefs[k]
             pyomo_var     == base_obj.linear_vars[k]
         IN  UpdateCoefsFrom(k + 1, base_obj, scenario_obj,
                 IF scenario_coef # base_coef
                 THEN [gm EXCEPT !.ScenNObj[gm.ScenarioNumber][pyomo_var] =
                                     Some(scenario_coef)]
                 ELSE gm)

\* The messages of the two exceptions _add_scenarios raises; the second one
\* goes on to name the scenario (excArg).
FirstScenarioMsg == "First scenario should be the base scenario (no changes)."

NoDifferenceMsg == "No difference in objective function between scenario and base scenario."

FirstScenarioCheck_Skipped(base_obj, scenario_obj) == FALSE

\* The check on the first scenario: it must not differ from the base case.
FirstScenarioCheck(base_obj, scenario_obj) ==
    base_obj.linear_coefs # scenario_obj.linear_coefs

NoDifferenceCheck_Skipped(base_obj, scenario_obj) == FALSE

\* The check on every other scenario: it must differ from the base case.
NoDifferenceCheck(base_obj, scenario_obj) ==
    base_obj.linear_coefs = scenario_obj.linear_coefs

\* The loop `for i, scenario in enumerate(self.scenarios)` from position i on.
\* st holds the model's parameters and variables, the scenarios and the
\* gurobipy model; the result adds how the loop ended.
RECURSIVE AddLoop(_, _, _, _)
AddLoop(v, i, base_obj, st) ==
    IF i >= Len(st.scens)
    THEN [st EXCEPT !.outcome = "ok"]
    ELSE LET scenario == st.scens[i + 1]
             gm1 == SelectScenario(st.gm, i, scenario.name)
             en  == __enter__(v, __call__(scenario), st.params, st.stale, st.value)
             scenario_obj == generate_standard_repn(en.params)
             ex  == __exit__(v, en.scen, en.params, st.stale, en.varValue)
             st1 == [st EXCEPT !.gm = gm1,
                               !.scens[i + 1] = ex.scen,
                               !.params = ex.params,
                               !.value = ex.varValue]
         IN  IF en.err # "none"
             THEN \* __enter__ raised: the with statement does not run __exit__
                  [st EXCEPT !.gm = gm1,
                             !.scens[i + 1] = en.scen,
                             !.params = en.params,
                             !.value = en.varValue,
                             !.outcome = en.err,
                             !.excArg = scenario.name]
             ELSE IF i = 0
                  THEN IF FirstScenarioCheck(base_obj, scenario_obj)
                       THEN [st1 EXCEPT !.outcome = FirstScenarioMsg]
                       ELSE IF v = "multi_scenario"
                            THEN AddLoop(v, i + 1, base_obj, st1)   \* continue
                            ELSE AddLoop(v, i + 1, base_obj,
                                     [st1 EXCEPT !.gm = UpdateCoefsFrom(
                                          1, base_obj, scenario_obj, gm1)])
                  ELSE IF NoDifferenceCheck(base_obj, scenario_obj)
                       THEN [st1 EXCEPT !.outcome = NoDifferenceMsg,
                                        !.excArg = scenario.name]
                       ELSE AddLoop(v, i + 1, base_obj,
                                [st1 EXCEPT !.gm = UpdateCoefsFrom(
                                     1, base_obj, scenario_obj, gm1)])

_add_scenarios(v, pv, vStale, vValue, scens, gm) ==
    AddLoop(v, 0, generate_standard_repn(pv),
            [params |-> pv, stale |-> vStale, value |-> vValue, scens |-> scens,
             gm |-> [gm EXCEPT !.NumScenarios = Len(scens)],
             outcome |-> "none", excArg |-> ""])

\* ------------------------------------------------------------------------
\* Inputs
\* ------------------------------------------------------------------------

\* The parameter changes a scenario may hold, not yet applied.
Changes == {MultiScenarioParamChange("cost", <<var>>, val) : var \in Vars, val \in Values}

\* A scenario of the solver's list holds no change or one change.
SingleChangeLists == {<<>>} \cup {<<c>> : c \in Changes}

\* A scenario that user code enters holds up to MaxChanges changes, two of
\* which may target the same parameter and index.
ChangeLists == UNION {[1 .. n -> Changes] : n \in 0 .. MaxChanges}

\* The name of the scenario at position i (0-based) of a list.
ScenarioName(i) == IF i = 0 THEN "Baseline" ELSE IF i = 1 THEN "s1"
                   ELSE IF i = 2 THEN "s2" ELSE IF i = 3 THEN "s3" ELSE "s4"

\* The lists of 1 .. n scenarios whose changes come from lists.
ScenarioLists(v, n, lists) ==
    UNION {{[k \in 1 .. m |-> MultiScenario(v, ScenarioName(k - 1), cl[k])] :
              cl \in [1 .. m -> lists]} : m \in 1 .. n}

ParamValuations == [ParamKeys -> Values]

ScenIdle ==
    /\ variant = "multi_scenario"
    /\ paramValue = [k \in ParamKeys |-> 1]
    /\ varStale = [var \in Vars |-> TRUE]
    /\ varValue = [var \in Vars |-> None]
    /\ referenced = [var \in Vars |-> 1]
    /\ scenarios = <<>>
    /\ gurobi_model = NewGurobiModel
    /\ stack = <<>>
    /\ vars_to_load = None
    /\ csvRows = <<>>
    /\ modScenarios = None

\* ------------------------------------------------------------------------
\* SpecAdd: GurobiDirect._set_instance has built the gurobipy model and
\* _add_scenarios runs on a solver constructed with a list of scenarios.
\* ------------------------------------------------------------------------

InitAdd ==
    /\ pc = "add_ready"
    /\ outcome = "none"
    /\ excArg = ""
    /\ variant \in Variants
    /\ paramValue \in ParamValuations
    /\ varStale = [var \in Vars |-> TRUE]
    /\ varValue = [var \in Vars |-> None]
    /\ referenced = [var \in Vars |-> 1]
    /\ scenarios \in ScenarioLists(variant, MaxScen, SingleChangeLists)
    /\ gurobi_model = NewGurobiModel
    /\ stack = <<>>
    /\ vars_to_load = None
    /\ csvRows = <<>>
    /\ modScenarios = None
    /\ ToolsIdle

AddScenarios ==
    /\ pc = "add_ready"
    /\ LET r == _add_scenarios(variant, paramValue, varStale, varValue,
                               scenarios, gurobi_model)
       IN  /\ paramValue' = r.params
           /\ varValue' = r.value
           /\ scenarios' = r.scens
           /\ gurobi_model' = r.gm
           /\ outcome' = r.outcome
           /\ excArg' = r.excArg
    /\ pc' = "add_done"
    /\ UNCHANGED <<variant, varStale, referenced, stack, vars_to_load, csvRows,
                   modScenarios>>
    /\ UNCHANGED toolVars

\* A second solve on the same solver object runs _add_scenarios again on a
\* fresh gurobipy model.
SolveAgain ==
    /\ pc = "add_done"
    /\ outcome = "ok"
    /\ gurobi_model' = NewGurobiModel
    /\ pc' = "add_ready"
    /\ outcome' = "none"
    /\ UNCHANGED <<excArg, variant, paramValue, varStale, varValue, referenced,
                   scenarios, stack, vars_to_load, csvRows, modScenarios>>
    /\ UNCHANGED toolVars

NextAdd == AddScenarios \/ SolveAgain

SpecAdd == InitAdd /\ [][NextAdd]_vars

\* ------------------------------------------------------------------------
\* Properties of _add_scenarios (SpecAdd)
\* ------------------------------------------------------------------------

\* The parameters under a scenario's overrides: every change's new value set,
\* in the order of the list.
RECURSIVE Overridden(_, _)
Overridden(pv, changes) ==
    IF changes = <<>>
    THEN pv
    ELSE Overridden([pv EXCEPT ![ChangeKey(Head(changes))] = Head(changes).new_value],
                    Tail(changes))

\* The coefficient of variable var in the objective under parameters pv.
CoefOf(pv, var) == pv[CoefParam(var)]

\* The linear coefficient vector computed under the scenario at position i.
ScenarioCoefs(i) ==
    generate_standard_repn(Overridden(paramValue, scenarios[i + 1].changes)).linear_coefs

BaseCoefs == generate_standard_repn(paramValue).linear_coefs

AddRuns == pc = "add_ready" /\ pc' = "add_done"

NothingWrittenIn(gm, i) == \A var \in Vars : gm.ScenNObj[i][var] = None

\* C1: after _add_scenarios completes without raising, NumScenarios is the
\* number of scenarios, slot i carries the name of scenario i, slot 0 holds no
\* written coefficient, and in every slot i >= 1 the coefficient of a variable
\* is written exactly when it differs from the base coefficient, with the
\* scenario's coefficient as value.
C1_WritesExactlyTheDifferingCoefficients ==
    [][(AddRuns /\ outcome' = "ok") =>
         /\ gurobi_model'.NumScenarios = Len(scenarios)
         /\ \A i \in 0 .. (Len(scenarios) - 1) :
                gurobi_model'.ScenNName[i] = Some(scenarios[i + 1].name)
         /\ NothingWrittenIn(gurobi_model', 0)
         /\ \A i \in 1 .. (Len(scenarios) - 1) : \A var \in Vars :
                LET base == CoefOf(paramValue, var)
                    scen == CoefOf(Overridden(paramValue, scenarios[i + 1].changes), var)
                IN  gurobi_model'.ScenNObj[i][var] =
                        IF scen # base THEN Some(scen) ELSE None]_vars

\* C3: if the coefficient vector computed under the scenario at position 0
\* differs from the base vector, _add_scenarios raises 'First scenario should
\* be the base scenario (no changes).' and no coefficient is written in any slot.
C3_FirstScenarioMustBeBase ==
    [][(AddRuns /\ ScenarioCoefs(0) # BaseCoefs) =>
         /\ outcome' = FirstScenarioMsg
         /\ \A i \in Slots : NothingWrittenIn(gurobi_model', i)]_vars

C3_Witness ==
    /\ pc = "add_done"
    /\ outcome = FirstScenarioMsg
    /\ scenarios[1].changes # <<>>
    /\ Len(scenarios) > 1

\* Position i >= 1 is the first one whose coefficient vector equals the base
\* vector.
FirstWithoutEffect(i) ==
    /\ ScenarioCoefs(i) = BaseCoefs
    /\ \A j \in 1 .. (i - 1) : ScenarioCoefs(j) # BaseCoefs

\* What C4 says happens at position i: the exception names scenario i, nothing
\* is written for it, and no later scenario is selected, named or written.
RaisedAt(i) ==
    /\ outcome' = NoDifferenceMsg
    /\ excArg' = scenarios[i + 1].name
    /\ NothingWrittenIn(gurobi_model', i)
    /\ gurobi_model'.ScenarioNumber = i
    /\ \A j \in Slots : j > i =>
           /\ gurobi_model'.ScenNName[j] = None
           /\ NothingWrittenIn(gurobi_model', j)

ScenarioTerms(i) ==
    generate_standard_repn(Overridden(paramValue, scenarios[i + 1].changes)).linear_vars

BaseTerms == generate_standard_repn(paramValue).linear_vars

\* C20: for a scenario whose objective has other linear terms than the base
\* objective (a coefficient became zero, or stopped being zero), every
\* coefficient written for a variable is that variable's coefficient in the
\* scenario objective, and every variable whose coefficient changed is written.
C20_TermsAreMatchedByVariable ==
    [][(AddRuns /\ outcome' = "ok") =>
         \A i \in 1 .. (Len(scenarios) - 1) :
             ScenarioTerms(i) # BaseTerms =>
                 \A var \in Vars :
                     LET base    == CoefOf(paramValue, var)
                         scen    == CoefOf(Overridden(paramValue, scenarios[i + 1].changes), var)
                         written == gurobi_model'.ScenNObj[i][var]
                     IN  /\ written # None => written = Some(scen)
                         /\ scen # base => written # None]_vars

\* ------------------------------------------------------------------------
\* SpecAddMulti: as SpecAdd, on a list of two scenarios each of which holds up
\* to MaxChanges changes, two of which may target the same parameter and index.
\* ------------------------------------------------------------------------

InitAddMulti ==
    /\ pc = "add_ready"
    /\ outcome = "none"
    /\ excArg = ""
    /\ variant \in Variants
    /\ paramValue \in ParamValuations
    /\ varStale = [var \in Vars |-> TRUE]
    /\ varValue = [var \in Vars |-> None]
    /\ referenced = [var \in Vars |-> 1]
    /\ \E c0 \in ChangeLists : \E c1 \in ChangeLists :
           scenarios = <<MultiScenario(variant, ScenarioName(0), c0),
                         MultiScenario(variant, ScenarioName(1), c1)>>
    /\ gurobi_model = NewGurobiModel
    /\ stack = <<>>
    /\ vars_to_load = None
    /\ csvRows = <<>>
    /\ modScenarios = None
    /\ ToolsIdle

SpecAddMulti == InitAddMulti /\ [][NextAdd]_vars

\* C21: whenever _add_scenarios raises one of its two exceptions, the model's
\* parameters hold their base values: every override of the failing scenario
\* and of the scenarios before it has been undone.
C21_ParametersAreBaseWhenAddScenariosRaises ==
    [][(AddRuns /\ outcome' \in {FirstScenarioMsg, NoDifferenceMsg})
          => paramValue' = paramValue]_vars

\* ------------------------------------------------------------------------
\* SpecCtx: user code enters and leaves scenarios with
\*     with scenario(model): body
\* in any order and nesting.  An entry of stack is an open with-block: the
\* position of its scenario and, for stating what leaving restores, the
\* parameters as they were immediately before entering.
\* ------------------------------------------------------------------------

InitCtx ==
    /\ pc = "ctx"
    /\ outcome = "none"
    /\ excArg = ""
    /\ variant = "multi_scenario"
    /\ paramValue \in ParamValuations
    /\ varStale = [var \in Vars |-> TRUE]
    /\ varValue = [var \in Vars |-> None]
    /\ referenced = [var \in Vars |-> 1]
    /\ scenarios \in [1 .. 2 -> {MultiScenario(variant, "s", cl) : cl \in ChangeLists}]
    /\ gurobi_model = NewGurobiModel
    /\ stack = <<>>
    /\ vars_to_load = None
    /\ csvRows = <<>>
    /\ modScenarios = None
    /\ ToolsIdle

Open == {stack[k].scenario : k \in DOMAIN stack}

\* with scenarios[i](model): __call__ and then __enter__; when __enter__ raises
\* the block is not entered and __exit__ does not run.
EnterScenario(i) ==
    /\ pc = "ctx"
    /\ Len(stack) < MaxDepth
    /\ i \notin Open
    /\ LET en == __enter__(variant, __call__(scenarios[i]), paramValue, varStale, varValue)
       IN  /\ scenarios' = [scenarios EXCEPT ![i] = en.scen]
           /\ paramValue' = en.params
           /\ varValue' = en.varValue
           /\ outcome' = IF en.err = "none" THEN "ok" ELSE en.err
           /\ stack' = IF en.err = "none"
                       THEN Append(stack, [scenario |-> i, saved |-> paramValue])
                       ELSE stack
    /\ UNCHANGED <<pc, excArg, variant, varStale, referenced, gurobi_model,
                   vars_to_load, csvRows, modScenarios>>
    /\ UNCHANGED toolVars

\* The innermost block ends, normally or because its body raised: __exit__
\* runs either way and returns None, so an exception of the body propagates.
ExitScenario(raised) ==
    /\ pc = "ctx"
    /\ stack # <<>>
    /\ LET i  == stack[Len(stack)].scenario
           ex == __exit__(variant, scenarios[i], paramValue, varStale, varValue)
       IN  /\ scenarios' = [scenarios EXCEPT ![i] = ex.scen]
           /\ paramValue' = ex.params
           /\ varValue' = ex.varValue
    /\ stack' = SubSeq(stack, 1, Len(stack) - 1)
    /\ outcome' = IF raised THEN "BodyError" ELSE "ok"
    /\ UNCHANGED <<pc, excArg, variant, varStale, referenced, gurobi_model,
                   vars_to_load, csvRows, modScenarios>>
    /\ UNCHANGED toolVars

NextCtx ==
    \/ \E i \in 1 .. 2 : EnterScenario(i)
    \/ \E raised \in BOOLEAN : ExitScenario(raised)

SpecCtx == InitCtx /\ [][NextCtx]_vars

\* C2: leaving a scenario's with-block restores every parameter to the value
\* it had immediately before entering, whatever the changes and whatever was
\* entered and left before, also when the body raised; and afterwards the
\* scenario's model is None.
C2_ExitRestoresParameters ==
    [][Len(stack') < Len(stack) =>
         /\ paramValue' = stack[Len(stack)].saved
         /\ scenarios'[stack[Len(stack)].scenario].model = "None"]_vars

\* ------------------------------------------------------------------------
\* SpecFail: as SpecCtx, with a scenario whose changes may name an index the
\* parameter does not have (cost[z]), for which apply_change raises KeyError.
\* ------------------------------------------------------------------------

UnknownIndexChanges == {MultiScenarioParamChange("cost", <<"z">>, val) : val \in {1, 2}}

FailingChangeLists ==
    UNION {[1 .. n -> Changes \cup UnknownIndexChanges] : n \in 0 .. MaxChanges}

InitFail ==
    /\ pc = "ctx"
    /\ outcome = "none"
    /\ excArg = ""
    /\ variant = "multi_scenario"
    /\ paramValue \in ParamValuations
    /\ varStale = [var \in Vars |-> TRUE]
    /\ varValue = [var \in Vars |-> None]
    /\ referenced = [var \in Vars |-> 1]
    /\ \E cl \in FailingChangeLists :
           scenarios = <<MultiScenario(variant, "s", cl), MultiScenario(variant, "t", <<>>)>>
    /\ gurobi_model = NewGurobiModel
    /\ stack = <<>>
    /\ vars_to_load = None
    /\ csvRows = <<>>
    /\ modScenarios = None
    /\ ToolsIdle

SpecFail == InitFail /\ [][NextCtx]_vars

\* C19: when applying one of a scenario's changes fails during __enter__, the
\* changes that __enter__ had applied are undone: the parameters are as they
\* were before the attempt.
C19_FailedEnterUndoesAppliedChanges ==
    [][(outcome' = "KeyError" /\ stack' = stack) => paramValue' = paramValue]_vars

\* ------------------------------------------------------------------------
\* GurobiMultiScenarioSolver._load_vars
\* ------------------------------------------------------------------------

\* self._solver_model.Params.ScenarioNumber = i
SetScenarioNumber_Forgotten(gm, i) == gm

SetScenarioNumber(gm, i) == [gm EXCEPT !.ScenarioNumber = i]

\* self._solver_model.getAttr("ScenNX", gurobi_vars): gurobipy reports the
\* values of the scenario that Params.ScenarioNumber selects.  The solver
\* variable of a pyomo variable (_pyomo_var_to_solver_var_map) has its name.
getAttr_ScenNX(gm, gurobi_vars) ==
    [k \in 1 .. Len(gurobi_vars) |-> gm.ScenNX[gm.ScenarioNumber][gurobi_vars[k]]]

\* Marking the listed variables and declaring every other variable stale.
MarkNotStale_OthersStale(list, refs, vStale) ==
    [var \in Vars |-> IF var \in Range(list) /\ refs[var] > 0 THEN FALSE ELSE TRUE]

\* for var in vars_to_load: if ref_vars[var] > 0: var.stale = False
MarkNotStale(list, refs, vStale) ==
    [var \in Vars |-> IF var \in Range(list) /\ refs[var] > 0 THEN FALSE ELSE vStale[var]]

\* for var, val in zip(vars_to_load, vals): if not var.stale: results[var] = val
RECURSIVE StoreFrom(_, _, _, _, _)
StoreFrom(k, list, vals, vStale, results) ==
    IF k > Min(Len(list), Len(vals))
    THEN results
    ELSE StoreFrom(k + 1, list, vals, vStale,
             IF vStale[list[k]]
             THEN results
             ELSE [var \in (DOMAIN results) \cup {list[k]} |->
                       IF var = list[k] THEN vals[k] ELSE results[var]])

\* The loop `for i, scenario in enumerate(self.scenarios)` from position i on:
\* multi_scenario.py stores a new ComponentMap in the scenario, multiscenario.py
\* adds to the ComponentMap the scenario already holds.
RECURSIVE LoadLoop(_, _, _, _, _, _)
LoadLoop(v, i, list, vStale, scens, gm) ==
    IF i >= Len(scens)
    THEN [scens |-> scens, gm |-> gm]
    ELSE LET gm1  == SetScenarioNumber(gm, i)
             vals == getAttr_ScenNX(gm1, list)
             old  == IF v = "multi_scenario" THEN EmptyMap ELSE scens[i + 1].results[1]
             results == StoreFrom(1, list, vals, vStale, old)
         IN  LoadLoop(v, i + 1, list, vStale,
                      [scens EXCEPT ![i + 1].results = Some(results)], gm1)

\* vars_to_load is None (every variable of the solver's map) or a list.
_load_vars(v, vtl, refs, vStale, scens, gm) ==
    LET list   == IF vtl = None THEN VarOrder ELSE vtl[1]
        stale1 == MarkNotStale(list, refs, vStale)
        l      == LoadLoop(v, 0, list, stale1, scens, gm)
    IN  [stale |-> stale1, scens |-> l.scens, gm |-> l.gm]

\* ------------------------------------------------------------------------
\* SpecLoad: the solver has solved a model with n scenarios and reports a
\* value for every variable in every scenario slot; _load_vars is called, any
\* number of times, with any list of variables or None.
\* ------------------------------------------------------------------------

\* The values the solver may report.
SolutionValues == {1, 2}

\* The lists of variables _load_vars may be given.
VarLists == {<<>>, <<"x">>, <<"y">>, <<"x", "y">>, <<"y", "x">>}

InitLoad ==
    /\ pc = "load"
    /\ outcome = "none"
    /\ excArg = ""
    /\ variant \in Variants
    /\ paramValue = [k \in ParamKeys |-> 1]
    /\ varStale \in [Vars -> BOOLEAN]
    /\ varValue = [var \in Vars |-> None]
    /\ referenced \in [Vars -> {0, 1}]
    /\ scenarios \in ScenarioLists(variant, MaxScen, {<<>>})
    /\ \E nx \in [0 .. (Len(scenarios) - 1) -> [Vars -> SolutionValues]] :
           gurobi_model = [NewGurobiModel EXCEPT
               !.NumScenarios = Len(scenarios),
               !.ScenNX = [i \in Slots |-> IF i < Len(scenarios)
                                           THEN nx[i]
                                           ELSE [var \in Vars |-> 0]]]
    /\ stack = <<>>
    /\ vars_to_load = None
    /\ csvRows = <<>>
    /\ modScenarios = None
    /\ ToolsIdle

LoadVars(vtl) ==
    /\ pc = "load"
    /\ LET r == _load_vars(variant, vtl, referenced, varStale, scenarios, gurobi_model)
       IN  /\ varStale' = r.stale
           /\ scenarios' = r.scens
           /\ gurobi_model' = r.gm
    /\ vars_to_load' = vtl
    /\ outcome' = "loaded"
    /\ UNCHANGED <<pc, excArg, variant, paramValue, varValue, referenced, stack,
                   csvRows, modScenarios>>
    /\ UNCHANGED toolVars

NextLoad == \E vtl \in {None} \cup {Some(l) : l \in VarLists} : LoadVars(vtl)

SpecLoad == InitLoad /\ [][NextLoad]_vars

LoadedList == IF vars_to_load = None THEN VarOrder ELSE vars_to_load[1]

\* C5: after _load_vars, the results of the scenario at position i map every
\* non-stale variable of vars_to_load to the value the solver reports for it
\* in slot i, and hold no value that differs from slot i's.
C5_ResultsComeFromOwnSlot ==
    outcome = "loaded" =>
        \A i \in 0 .. (Len(scenarios) - 1) :
            LET results == scenarios[i + 1].results
            IN  /\ results # None
                /\ \A var \in Range(LoadedList) :
                       ~varStale[var] =>
                           /\ var \in DOMAIN results[1]
                           /\ results[1][var] = gurobi_model.ScenNX[i][var]
                /\ \A var \in DOMAIN results[1] :
                       results[1][var] = gurobi_model.ScenNX[i][var]

C5_Witness ==
    /\ outcome = "loaded"
    /\ vars_to_load = Some(<<"y", "x">>)
    /\ Len(scenarios) >= 2
    /\ DOMAIN scenarios[1].results[1] = Vars
    /\ DOMAIN scenarios[2].results[1] = Vars
    /\ scenarios[1].results[1]["x"] # scenarios[2].results[1]["x"]
    /\ scenarios[1].results[1]["y"] # scenarios[2].results[1]["y"]

\* The list a call of _load_vars works on, from the argument it was given.
ListOf(vtl) == IF vtl = None THEN VarOrder ELSE vtl[1]

\* C23: _load_vars changes no variable's value and sets no stale flag to
\* true; it clears the stale flag of exactly the variables of vars_to_load
\* whose reference count is positive, leaves the solver's ScenarioNumber on
\* the last scenario, stores each scenario's results, and changes nothing
\* else of the model, the scenarios or the gurobipy model.
C23_LoadVarsChangesOnlyStaleFlagsAndResults ==
    [][outcome' = "loaded" =>
         /\ varValue' = varValue
         /\ paramValue' = paramValue
         /\ referenced' = referenced
         /\ \A var \in Vars :
                varStale'[var] =
                    IF var \in Range(ListOf(vars_to_load')) /\ referenced[var] > 0
                    THEN FALSE
                    ELSE varStale[var]
         /\ gurobi_model' = [gurobi_model EXCEPT !.ScenarioNumber = Len(scenarios) - 1]
         /\ Len(scenarios') = Len(scenarios)
         /\ \A k \in DOMAIN scenarios :
                scenarios'[k] = [scenarios[k] EXCEPT !.results = scenarios'[k].results]]_vars

C23_Witness ==
    /\ outcome = "loaded"
    /\ vars_to_load = Some(<<"x", "y">>)
    /\ referenced = [x |-> 1, y |-> 0]
    /\ varStale = [x |-> FALSE, y |-> TRUE]
    /\ Len(scenarios) = 3
    /\ gurobi_model.ScenarioNumber = 2
    /\ DOMAIN scenarios[3].results[1] = {"x"}
    /\ varValue = [var \in Vars |-> None]

\* ------------------------------------------------------------------------
\* load_inputs
\* ------------------------------------------------------------------------

base_scenario_name == "Baseline"

\* The parameters of mod that a row may name: cost is mutable and indexed by
\* one set, fixed_cost is not mutable, tariff is mutable over an index set of
\* unknown dimension (dimen is UnknownSetDimen).
ModParams ==
    [cost       |-> [mutable |-> TRUE,  dimen_known |-> TRUE,  dimen |-> 1],
     fixed_cost |-> [mutable |-> FALSE, dimen_known |-> TRUE,  dimen |-> 1],
     tariff     |-> [mutable |-> TRUE,  dimen_known |-> FALSE, dimen |-> 0]]

IsReservedName_Skipped(scenario_name) == FALSE

\* if scenario_name == base_scenario_name: raise
IsReservedName(scenario_name) == scenario_name = base_scenario_name

\* The position of the scenario called name in the dict's values, 0 if none.
PositionOf(dict, name) ==
    IF \E k \in DOMAIN dict : dict[k].name = name
    THEN CHOOSE k \in DOMAIN dict : dict[k].name = name
    ELSE 0

\* The loop `for _, row in df.iterrows()` from row k on; dict is the
\* insertion-ordered dict of scenarios as the list of its values.
RECURSIVE RowLoop(_, _, _)
RowLoop(rows, k, dict) ==
    IF k > Len(rows)
    THEN [outcome |-> "ok", excArg |-> "", scenarios |-> dict]
    ELSE LET row   == rows[k]
             known == PositionOf(dict, row.scenario)
             dict1 == IF known = 0
                      THEN Append(dict, MultiScenario("multi_scenario", row.scenario, <<>>))
                      ELSE dict
             pos   == PositionOf(dict1, row.scenario)
             param == ModParams[row.param]
             indexes == SubSeq(row.index, 1, param.dimen)
             change  == MultiScenarioParamChange(row.param, indexes, row.value)
         IN  IF IsReservedName(row.scenario)
             THEN [outcome |-> "The scenario name is reserverd.",
                   excArg |-> base_scenario_name, scenarios |-> dict]
             ELSE IF ~param.mutable
                  THEN [outcome |-> "Parameter must be mutable. Set 'mutable=True'.",
                        excArg |-> row.param, scenarios |-> dict1]
                  ELSE IF ~param.dimen_known
                       THEN [outcome |-> "Index has unknown dimension. Specify dimen= during its creation.",
                             excArg |-> row.param, scenarios |-> dict1]
                       ELSE RowLoop(rows, k + 1,
                                [dict1 EXCEPT ![pos].changes = Append(@, change)])

\* load_inputs assigning mod.scenarios whatever the outcome of the loop.
load_inputs_PublishesPartial(csv, published) ==
    IF csv = None
    THEN [outcome |-> "FileNotFoundError", excArg |-> "multi_scenario.csv",
          modScenarios |-> published]
    ELSE LET r == RowLoop(csv[1], 1,
                          <<MultiScenario("multi_scenario", base_scenario_name, <<>>)>>)
         IN  [outcome |-> r.outcome, excArg |-> r.excArg,
              modScenarios |-> Some(r.scenarios)]

\* load_inputs(mod, _, inputs_dir): csv is None when the inputs directory holds
\* no multi_scenario.csv (pd.read_csv raises) and the rows of the file otherwise.
\* mod.scenarios is assigned by the last statement only.
load_inputs(csv, published) ==
    IF csv = None
    THEN [outcome |-> "FileNotFoundError", excArg |-> "multi_scenario.csv",
          modScenarios |-> published]
    ELSE LET r == RowLoop(csv[1], 1,
                          <<MultiScenario("multi_scenario", base_scenario_name, <<>>)>>)
         IN  [outcome |-> r.outcome, excArg |-> r.excArg,
              modScenarios |-> IF r.outcome = "ok" THEN Some(r.scenarios) ELSE published]

\* ------------------------------------------------------------------------
\* SpecInputs: load_inputs reads multi_scenario.csv; when it succeeded a
\* solver is constructed on mod.scenarios and _add_scenarios runs.
\* ------------------------------------------------------------------------

CsvRowValues ==
    [scenario : {base_scenario_name, "s1", "s2"},
     param    : DOMAIN ModParams,
     value    : {0, 2},
     index    : {<<"x", "nan", "nan", "nan">>}]

CsvFiles == UNION {[1 .. n -> CsvRowValues] : n \in 0 .. MaxCsvRows}

InitInputs ==
    /\ pc = "inputs_ready"
    /\ outcome = "none"
    /\ excArg = ""
    /\ variant = "multi_scenario"
    /\ paramValue \in ParamValuations
    /\ varStale = [var \in Vars |-> TRUE]
    /\ varValue = [var \in Vars |-> None]
    /\ referenced = [var \in Vars |-> 1]
    /\ scenarios = <<>>
    /\ gurobi_model = NewGurobiModel
    /\ stack = <<>>
    /\ vars_to_load = None
    /\ csvRows \in {None} \cup {Some(f) : f \in CsvFiles}
    /\ modScenarios = None
    /\ ToolsIdle

LoadInputs ==
    /\ pc = "inputs_ready"
    /\ LET r == load_inputs(csvRows, modScenarios)
       IN  /\ outcome' = r.outcome
           /\ excArg' = r.excArg
           /\ modScenarios' = r.modScenarios
    /\ pc' = "inputs_done"
    /\ UNCHANGED <<variant, paramValue, varStale, varValue, referenced, scenarios,
                   gurobi_model, stack, vars_to_load, csvRows>>
    /\ UNCHANGED toolVars

\* GurobiMultiScenarioSolver(scenarios=mod.scenarios) and the base class's
\* _set_instance, which builds the gurobipy model.
ConstructSolver ==
    /\ pc = "inputs_done"
    /\ modScenarios # None
    /\ Len(modScenarios[1]) <= MaxScen
    /\ scenarios' = modScenarios[1]
    /\ gurobi_model' = NewGurobiModel
    /\ outcome' = "none"
    /\ pc' = "add_ready"
    /\ UNCHANGED <<excArg, variant, paramValue, varStale, varValue, referenced,
                   stack, vars_to_load, csvRows, modScenarios>>
    /\ UNCHANGED toolVars

NextInputs == LoadInputs \/ ConstructSolver \/ AddScenarios

SpecInputs == InitInputs /\ [][NextInputs]_vars

HasBaselineRow ==
    csvRows # None /\ \E k \in DOMAIN csvRows[1] : csvRows[1][k].scenario = base_scenario_name

\* C9: whatever the rows and their order, the list load_inputs publishes
\* starts with a scenario named 'Baseline' that holds no change, and that list
\* passes the first-scenario check of _add_scenarios; a row whose scenario is
\* 'Baseline' makes load_inputs raise.
C9_BaselineComesFirst ==
    /\ modScenarios # None =>
           /\ modScenarios[1][1].name = base_scenario_name
           /\ modScenarios[1][1].changes = <<>>
    /\ pc = "add_done" => outcome # FirstScenarioMsg
    /\ (pc = "inputs_done" /\ HasBaselineRow) => (outcome # "ok" /\ modScenarios = None)

C9_Witness ==
    /\ pc = "add_done"
    /\ Len(scenarios) = 3
    /\ scenarios[2].name = "s2"
    /\ scenarios[3].name = "s1"
    /\ outcome = "ok"

C9_WitnessReserved ==
    /\ pc = "inputs_done"
    /\ HasBaselineRow
    /\ csvRows[1][1].scenario = "s1"
    /\ outcome = "The scenario name is reserverd."

\* C11: when the inputs directory holds no multi_scenario.csv, load_inputs
\* does not fail and defines no scenario change.
C11_MissingFileIsTolerated ==
    (pc = "inputs_done" /\ csvRows = None) =>
        /\ outcome = "ok"
        /\ modScenarios # None =>
               \A k \in DOMAIN modScenarios[1] : modScenarios[1][k].changes = <<>>

\* A row that names a parameter that is not mutable, or one whose index set
\* has unknown dimension.
RowIsRejected(row) ==
    ~ModParams[row.param].mutable \/ ~ModParams[row.param].dimen_known

\* C15: load_inputs raises when some row names a parameter that is not
\* mutable or whose index set has unknown dimension, and whenever load_inputs
\* raises mod.scenarios is left unassigned.
C15_RejectedRowRaisesAndPublishesNothing ==
    pc = "inputs_done" =>
        /\ (csvRows # None /\ \E k \in DOMAIN csvRows[1] : RowIsRejected(csvRows[1][k]))
               => outcome # "ok"
        /\ outcome # "ok" => modScenarios = None

C15_Witness ==
    /\ pc = "inputs_done"
    /\ csvRows # None
    /\ Len(csvRows[1]) = 2
    /\ csvRows[1][1].scenario = "s1"
    /\ csvRows[1][1].param = "cost"
    /\ csvRows[1][2].param = "fixed_cost"
    /\ outcome = "Parameter must be mutable. Set 'mutable=True'."
    /\ excArg = "fixed_cost"
    /\ modScenarios = None

C15_WitnessUnknownDimen ==
    /\ pc = "inputs_done"
    /\ csvRows # None
    /\ Len(csvRows[1]) = 2
    /\ csvRows[1][1].param = "cost"
    /\ csvRows[1][2].param = "tariff"
    /\ outcome = "Index has unknown dimension. Specify dimen= during its creation."
    /\ modScenarios = None

\* ------------------------------------------------------------------------
\* get_inputs_good_JS_python2_baseline.py: shutdown and main
\*
\* tunnel, db_connection and db_cursor hold the state of the resource each
\* global names; "absent" is the global still None.
\* ------------------------------------------------------------------------

\* The files main writes after reading the scenario row, in program order:
\* whether a query is executed for it, whether a file is written, whether it is
\* announced with print '  <file>...', and the id of the scenario row that must
\* not be None for the block to run.
InputTables ==
    << [file |-> "scenario_params.txt",              query |-> TRUE,  write |-> TRUE,  announce |-> FALSE, cond |-> "always"],
       [file |-> "switch_inputs_version.txt",        query |-> FALSE, write |-> TRUE,  announce |-> FALSE, cond |-> "always"],
       [file |-> "periods.tab",                      query |-> TRUE,  write |-> TRUE,  announce |-> TRUE,  cond |-> "always"],
       [file |-> "timeseries.tab",                   query |-> TRUE,  write |-> TRUE,  announce |-> TRUE,  cond |-> "always"],
       [file |-> "timepoints.tab",                   query |-> TRUE,  write |-> TRUE,  announce |-> TRUE,  cond |-> "always"],
       [file |-> "load_zones.tab",                   query |-> TRUE,  write |-> TRUE,  announce |-> TRUE,  cond |-> "always"],
       [file |-> "loads.tab",                        query |-> TRUE,  write |-> TRUE,  announce |-> TRUE,  cond |-> "always"],
       [file |-> "balancing_areas.tab",              query |-> TRUE,  write |-> TRUE,  announce |-> TRUE,  cond |-> "always"],
       [file |-> "zone_balancing_areas.tab",         query |-> TRUE,  write |-> TRUE,  announce |-> TRUE,  cond |-> "always"],
       [file |-> "transmission_lines.tab",           query |-> TRUE,  write |-> TRUE,  announce |-> TRUE,  cond |-> "always"],
       [file |-> "trans_optional_params.tab",        query |-> TRUE,  write |-> TRUE,  announce |-> TRUE,  cond |-> "always"],
       [file |-> "trans_params.dat",                 query |-> FALSE, write |-> TRUE,  announce |-> TRUE,  cond |-> "always"],
       [file |-> "fuels.tab",                        query |-> TRUE,  write |-> TRUE,  announce |-> TRUE,  cond |-> "always"],
       [file |-> "non_fuel_energy_sources.tab",      query |-> TRUE,  write |-> TRUE,  announce |-> TRUE,  cond |-> "always"],
       [file |-> "fuel_cost.tab",                    query |-> TRUE,  write |-> TRUE,  announce |-> TRUE,  cond |-> "always"],
       [file |-> "generation_projects_info.tab",     query |-> TRUE,  write |-> TRUE,  announce |-> TRUE,  cond |-> "always"],
       [file |-> "gen_build_predetermined.tab",      query |-> TRUE,  write |-> TRUE,  announce |-> TRUE,  cond |-> "always"],
       [file |-> "gen_build_costs.tab",              query |-> TRUE,  write |-> TRUE,  announce |-> TRUE,  cond |-> "always"],
       [file |-> "financials.dat",                   query |-> FALSE, write |-> TRUE,  announce |-> TRUE,  cond |-> "always"],
       [file |-> "variable_capacity_factors.tab",    query |-> FALSE, write |-> FALSE, announce |-> TRUE,  cond |-> "always"],
       [file |-> "hydro_timeseries.tab",             query |-> TRUE,  write |-> TRUE,  announce |-> TRUE,  cond |-> "always"],
       [file |-> "carbon_policies.tab",              query |-> TRUE,  write |-> TRUE,  announce |-> TRUE,  cond |-> "always"],
       [file |-> "rps_targets.tab",                  query |-> TRUE,  write |-> TRUE,  announce |-> TRUE,  cond |-> "rps_scenario_id"],
       [file |-> "fuel_supply_curves.tab",           query |-> TRUE,  write |-> TRUE,  announce |-> TRUE,  cond |-> "supply_curves_scenario_id"],
       [file |-> "regional_fuel_markets.tab",        query |-> TRUE,  write |-> TRUE,  announce |-> TRUE,  cond |-> "supply_curves_scenario_id"],
       [file |-> "zone_to_regional_fuel_market.tab", query |-> TRUE,  write |-> TRUE,  announce |-> TRUE,  cond |-> "supply_curves_scenario_id"],
       [file |-> "dr_data.tab",                      query |-> TRUE,  write |-> TRUE,  announce |-> TRUE,  cond |-> "enable_dr"],
       [file |-> "ev_limits.tab",                    query |-> TRUE,  write |-> TRUE,  announce |-> TRUE,  cond |-> "enable_ev"] >>

\* The optional ids of a scenario row: TRUE when the id is not None.
ScenarioRows ==
    [rps_scenario_id : BOOLEAN, supply_curves_scenario_id : BOOLEAN,
     enable_dr : BOOLEAN, enable_ev : BOOLEAN]

\* `if <id> is not None:` around a block of main.
Applies(cond, row) == cond = "always" \/ row[cond]

\* shutdown(): each resource whose global is set is closed, and the tunnel
\* stopped.
shutdown(cursor, connection, tun) ==
    [db_cursor     |-> IF cursor # "absent" THEN "closed" ELSE cursor,
     db_connection |-> IF connection # "absent" THEN "closed" ELSE connection,
     tunnel        |-> IF tun # "absent" THEN "stopped" ELSE tun]

\* ------------------------------------------------------------------------
\* SpecExtract: one run of the extraction script's main, from the creation of
\* the tunnel on.  Every call that reaches outside the program (the tunnel, the
\* database, the file system) may succeed or raise.
\* ------------------------------------------------------------------------

InitExtract ==
    /\ pc = "main"
    /\ outcome = "none"
    /\ excArg = ""
    /\ ScenIdle
    /\ ToolsIdle

Abort(exception, where) ==
    /\ pc' = "aborted"
    /\ outcome' = exception
    /\ excArg' = where

\* tunnel = sshtunnel.SSHTunnelForwarder(...); tunnel.start(), outside any try.
StartTunnel(ok) ==
    /\ pc = "main"
    /\ IF ok
       THEN /\ tunnel' = "running"
            /\ pc' = "tunnel_started"
            /\ UNCHANGED <<outcome, excArg>>
       ELSE /\ tunnel' = "start_failed"
            /\ Abort("BaseSSHTunnelForwarderError", "tunnel.start")
    /\ UNCHANGED <<db_connection, db_cursor, connectAttempts, queries, s_details,
                   step, announced, files>>
    /\ UNCHANGED <<scenVars, tabVars, cmpVars, utilVars>>

\* try: db_connection = psycopg2.connect(...)  except: tunnel.stop(); raise
Connect(ok) ==
    /\ pc = "tunnel_started"
    /\ connectAttempts' = connectAttempts + 1
    /\ IF ok
       THEN /\ db_connection' = "open"
            /\ pc' = "connected"
            /\ UNCHANGED <<tunnel, outcome, excArg>>
       ELSE /\ tunnel' = "stopped"
            /\ Abort("OperationalError", "psycopg2.connect")
            /\ UNCHANGED db_connection
    /\ UNCHANGED <<db_cursor, queries, s_details, step, announced, files>>
    /\ UNCHANGED <<scenVars, tabVars, cmpVars, utilVars>>

\* if not os.path.exists(args.i): os.makedirs(args.i); then
\* db_cursor = db_connection.cursor()
OpenCursor(ok) ==
    /\ pc = "connected"
    /\ IF ok
       THEN /\ db_cursor' = "open"
            /\ pc' = "cursor_open"
            /\ UNCHANGED <<outcome, excArg>>
       ELSE /\ Abort("OSError", "os.makedirs")
            /\ UNCHANGED db_cursor
    /\ UNCHANGED <<tunnel, db_connection, connectAttempts, queries, s_details, step,
                   announced, files>>
    /\ UNCHANGED <<scenVars, tabVars, cmpVars, utilVars>>

\* The query of switch.scenario and s_details = db_cursor.fetchone(): the
\* execute may raise; row is None when no scenario has the id, and then
\* s_details[0] raises TypeError.
ReadScenario(ok, row) ==
    /\ pc = "cursor_open"
    /\ queries' = queries + 1
    /\ IF ~ok
       THEN /\ Abort("DatabaseError", "switch.scenario")
            /\ UNCHANGED <<s_details, step>>
       ELSE IF row = None
            THEN /\ Abort("TypeError", "s_details[0]")
                 /\ UNCHANGED <<s_details, step>>
            ELSE /\ s_details' = row
                 /\ step' = 1
                 /\ pc' = "tables"
                 /\ UNCHANGED <<outcome, excArg>>
    /\ UNCHANGED <<tunnel, db_connection, db_cursor, connectAttempts, announced, files>>
    /\ UNCHANGED <<scenVars, tabVars, cmpVars, utilVars>>

\* One block of main: the announcement, the query and the file.  The query
\* (result "query_error") or the writing of the file, once opened (result
\* "write_error"), may raise; a block whose id is None is passed over.
WriteTable(result) ==
    /\ pc = "tables"
    /\ step <= Len(InputTables)
    /\ LET t == InputTables[step]
       IN  IF ~Applies(t.cond, s_details[1])
           THEN /\ result = "ok"
                /\ step' = step + 1
                /\ UNCHANGED <<pc, outcome, excArg, queries, announced, files>>
           ELSE /\ result = "query_error" => t.query
                /\ result = "write_error" => t.write
                /\ announced' = IF t.announce THEN Append(announced, t.file) ELSE announced
                /\ queries' = IF t.query THEN queries + 1 ELSE queries
                /\ files' = IF t.write /\ result # "query_error"
                            THEN files \cup {t.file}
                            ELSE files
                /\ IF result = "ok"
                   THEN /\ step' = step + 1
                        /\ UNCHANGED <<pc, outcome, excArg>>
                   ELSE /\ Abort(IF result = "query_error" THEN "DatabaseError" ELSE "IOError",
                                 t.file)
                        /\ UNCHANGED step
    /\ UNCHANGED <<tunnel, db_connection, db_cursor, connectAttempts, s_details>>
    /\ UNCHANGED <<scenVars, tabVars, cmpVars, utilVars>>

\* The end of main: the elapsed time is printed and shutdown() is called.
Finish ==
    /\ pc = "tables"
    /\ step > Len(InputTables)
    /\ LET r == shutdown(db_cursor, db_connection, tunnel)
       IN  /\ db_cursor' = r.db_cursor
           /\ db_connection' = r.db_connection
           /\ tunnel' = r.tunnel
    /\ pc' = "finished"
    /\ outcome' = "ok"
    /\ UNCHANGED <<excArg, connectAttempts, queries, s_details, step, announced, files>>
    /\ UNCHANGED <<scenVars, tabVars, cmpVars, utilVars>>

NextExtract ==
    \/ \E ok \in BOOLEAN : StartTunnel(ok)
    \/ \E ok \in BOOLEAN : Connect(ok)
    \/ \E ok \in BOOLEAN : OpenCursor(ok)
    \/ \E ok \in BOOLEAN : \E row \in {None} \cup {Some(r) : r \in ScenarioRows} :
           ReadScenario(ok, row)
    \/ \E result \in {"ok", "query_error", "write_error"} : WriteTable(result)
    \/ Finish

SpecExtract == InitExtract /\ [][NextExtract]_vars

\* C6: if starting the tunnel or opening the connection fails, the script
\* aborts with the tunnel stopped and the exception propagating, after at most
\* one connection attempt, no query and no file.
C6_FailedConnectionStopsTunnel ==
    (pc = "aborted" /\ excArg \in {"tunnel.start", "psycopg2.connect"}) =>
        /\ tunnel = "stopped"
        /\ outcome \in {"BaseSSHTunnelForwarderError", "OperationalError"}
        /\ connectAttempts <= 1
        /\ queries = 0
        /\ files = {}

\* C7: every run of main that started the tunnel ends, normally or by an
\* exception at any later step, with the cursor closed, the connection closed
\* and the tunnel stopped.
C7_EveryRunReleasesResources ==
    (pc \in {"finished", "aborted"} /\ tunnel \in {"running", "stopped"}) =>
        /\ db_cursor # "open"
        /\ db_connection # "open"
        /\ tunnel = "stopped"

\* C18: every table main has announced is written before the next block
\* starts, so that when main completes every announced file exists,
\* variable_capacity_factors.tab included.
C18_AnnouncedTablesAreWritten ==
    pc \in {"tables", "finished"} =>
        \A k \in DOMAIN announced : announced[k] \in files

\* ------------------------------------------------------------------------
\* get_inputs_good_JS_python2_baseline.py: write_tab
\*
\* A string is the tuple of its characters.  An element of a row is None, an
\* integer or a string.
\* ------------------------------------------------------------------------

TabChar == "\t"

\* os.linesep where the script runs (a POSIX system).
linesep == <<"\n">>

NoneElement == [kind |-> "none", int |-> 0, str |-> <<>>]

IntElement(n) == [kind |-> "int", int |-> n, str |-> <<>>]

StrElement(chars) == [kind |-> "str", int |-> 0, str |-> chars]

DigitChars == <<"0", "1", "2", "3", "4", "5", "6", "7", "8", "9">>

\* The decimal digits of a natural number.
RECURSIVE Digits(_)
Digits(n) ==
    IF n < 10
    THEN <<DigitChars[n + 1]>>
    ELSE Digits(n \div 10) \o <<DigitChars[(n % 10) + 1]>>

\* str(element)
str(element) ==
    IF element.kind = "none"
    THEN <<"N", "o", "n", "e">>
    ELSE IF element.kind = "int"
         THEN IF element.int < 0
              THEN <<"-">> \o Digits(0 - element.int)
              ELSE Digits(element.int)
         ELSE element.str

clean_string_WithoutDot(element) == str(element)

\* '.' if element is None else str(element)
clean_string(element) ==
    IF element.kind = "none" THEN <<".">> ELSE str(element)

\* sep.join(strings)
RECURSIVE join(_, _)
join(sep, strings) ==
    IF strings = <<>>
    THEN <<>>
    ELSE IF Len(strings) = 1
         THEN strings[1]
         ELSE strings[1] \o <<sep>> \o join(sep, Tail(strings))

row_as_clean_strings(row) == [j \in 1 .. Len(row) |-> clean_string(row[j])]

\* The text written for the rows k .. n of the cursor.
RECURSIVE RowsText(_, _, _)
RowsText(rows, k, n) ==
    IF k > n
    THEN <<>>
    ELSE join(TabChar, row_as_clean_strings(rows[k])) \o linesep \o RowsText(rows, k + 1, n)

\* write_tab(fname, headers, cursor).  opened is FALSE when open() raises;
\* fetched is the number of rows the cursor yields before it raises, None when
\* it yields them all.  The with statement closes the file either way.
write_tab(fname, headers, rows, opened, fetched) ==
    IF ~opened
    THEN [outcome |-> "IOError", file |-> None]
    ELSE LET n == IF fetched = None THEN Len(rows) ELSE fetched[1]
         IN  [outcome |-> IF fetched = None THEN "ok" ELSE "DatabaseError",
              file |-> Some([name    |-> fname \o <<".", "t", "a", "b">>,
                             content |-> join(TabChar, headers) \o linesep
                                             \o RowsText(rows, 1, n),
                             handle  |-> "closed"])]

\* ------------------------------------------------------------------------
\* SpecTab: one call of write_tab on the rows of a cursor.
\* ------------------------------------------------------------------------

\* Most rows of a cursor.
MaxTabRows == 2

TabElements == {NoneElement, IntElement(0), IntElement(12), StrElement(<<"a", "b">>)}

TabHeaders == {<<<<"I", "D">>>>, <<<<"I", "D">>, <<"m", "w">>>>}

TabCursors(width) == UNION {[1 .. n -> [1 .. width -> TabElements]] : n \in 0 .. MaxTabRows}

InitTab ==
    /\ pc = "tab_ready"
    /\ outcome = "none"
    /\ excArg = ""
    /\ ScenIdle
    /\ tunnel = "absent"
    /\ db_connection = "absent"
    /\ db_cursor = "absent"
    /\ connectAttempts = 0
    /\ queries = 0
    /\ s_details = None
    /\ step = 0
    /\ announced = <<>>
    /\ files = {}
    /\ \E headers \in TabHeaders : \E rows \in TabCursors(Len(headers)) :
           tabArgs = Some([fname |-> <<"f">>, headers |-> headers, rows |-> rows])
    /\ tabFile = None
    /\ cmpArgs = None
    /\ created = <<>>
    /\ graphCalls = <<>>
    /\ UtilsIdle

WriteTab(opened, fetched) ==
    /\ pc = "tab_ready"
    /\ fetched # None => (opened /\ fetched[1] < Len(tabArgs[1].rows))
    /\ LET r == write_tab(tabArgs[1].fname, tabArgs[1].headers, tabArgs[1].rows,
                          opened, fetched)
       IN  /\ outcome' = r.outcome
           /\ tabFile' = r.file
    /\ pc' = "tab_done"
    /\ UNCHANGED <<excArg, scenVars, extractVars, tabArgs, cmpVars, utilVars>>

NextTab ==
    \E opened \in BOOLEAN : \E fetched \in {None} \cup {Some(k) : k \in 0 .. MaxTabRows} :
        WriteTab(opened, fetched)

SpecTab == InitTab /\ [][NextTab]_vars

\* The pieces of a text between the occurrences of a separator character.
RECURSIVE SplitFrom(_, _, _, _)
SplitFrom(text, sep, k, piece) ==
    IF k > Len(text)
    THEN <<piece>>
    ELSE IF text[k] = sep
         THEN <<piece>> \o SplitFrom(text, sep, k + 1, <<>>)
         ELSE SplitFrom(text, sep, k + 1, Append(piece, text[k]))

\* The lines of a text, each ended by a line separator.
LinesOf(text) ==
    LET pieces == SplitFrom(text, linesep[1], 1, <<>>)
    IN  IF pieces[Len(pieces)] = <<>>
        THEN SubSeq(pieces, 1, Len(pieces) - 1)
        ELSE pieces

FieldsOf(line) == SplitFrom(line, TabChar, 1, <<>>)

\* C8: write_tab leaves the file fname.tab with 1 + N lines for N rows: the
\* headers joined by tabs, then each row in cursor order, its elements as
\* their string form and None as '.', joined by tabs; the handle is closed
\* when write_tab returns or raises.
C8_TabFileHoldsHeaderAndRows ==
    pc = "tab_done" =>
        /\ tabFile # None => tabFile[1].handle = "closed"
        /\ outcome = "ok" =>
               /\ tabFile # None
               /\ tabFile[1].name = tabArgs[1].fname \o <<".", "t", "a", "b">>
               /\ LET lines == LinesOf(tabFile[1].content)
                      rows  == tabArgs[1].rows
                  IN  /\ Len(lines) = 1 + Len(rows)
                      /\ FieldsOf(lines[1]) = tabArgs[1].headers
                      /\ \A k \in 1 .. Len(rows) :
                             FieldsOf(lines[k + 1]) =
                                 [j \in 1 .. Len(rows[k]) |->
                                     IF rows[k][j].kind = "none"
                                     THEN <<".">>
                                     ELSE str(rows[k][j])]

C8_Witness ==
    /\ pc = "tab_done"
    /\ outcome = "ok"
    /\ Len(tabArgs[1].rows) = 2
    /\ Len(tabArgs[1].headers) = 2
    /\ tabArgs[1].rows[1] = <<IntElement(12), NoneElement>>
    /\ tabArgs[1].rows[2] = <<NoneElement, StrElement(<<"a", "b">>)>>
    /\ tabFile[1].content = <<"I", "D", "\t", "m", "w", "\n",
                              "1", "2", "\t", ".", "\n",
                              ".", "\t", "a", "b", "\n">>

C8_WitnessRaised ==
    /\ pc = "tab_done"
    /\ outcome = "DatabaseError"
    /\ Len(tabArgs[1].rows) = 2
    /\ tabFile[1].handle = "closed"
    /\ Len(LinesOf(tabFile[1].content)) = 2

\* ------------------------------------------------------------------------
\* tools/graphing/compare.py: main
\*
\* A path is the tuple of its components (the pieces between the slashes); a
\* name given on the command line is a tuple of one component.
\* ------------------------------------------------------------------------

\* os.path.normpath of a relative path: empty and "." components are dropped,
\* "name/.." pairs are resolved, leading ".." components stay, and an empty
\* result is ".".
RECURSIVE NormFrom(_, _, _)
NormFrom(path, k, kept) ==
    IF k > Len(path)
    THEN kept
    ELSE IF path[k] = "" \/ path[k] = "."
         THEN NormFrom(path, k + 1, kept)
         ELSE IF path[k] = ".." /\ kept # <<>> /\ kept[Len(kept)] # ".."
              THEN NormFrom(path, k + 1, SubSeq(kept, 1, Len(kept) - 1))
              ELSE NormFrom(path, k + 1, Append(kept, path[k]))

\* The path as it was given.
normpath_Identity(path) == path

normpath(path) ==
    LET kept == NormFrom(path, 1, <<>>)
    IN  IF kept = <<>> THEN <<".">> ELSE kept

NotEnoughMsg == "Didn't pass in enough scenarios to compare"

NamesCountMsg(names, paths) ==
    "Gave " \o ToString(Len(names)) \o " scenario names but there were "
        \o ToString(Len(paths)) \o " scenarios."

NamesCountCheck_Skipped(names, paths) == FALSE

\* len(args.names) != len(args.scenarios)
NamesCountCheck(names, paths) == Len(names) # Len(paths)

\* Scenario(rel_path, name)
Scenario(rel_path, name) == [rel_path |-> rel_path, name |-> name]

\* main() without the check on the number of scenarios.
compare_main_WithoutCountCheck(args) ==
    IF FALSE
    THEN [outcome |-> "Exception", msg |-> NotEnoughMsg, created |-> <<>>, calls |-> <<>>]
    ELSE IF args.names # None /\ NamesCountCheck(args.names[1], args.scenarios)
         THEN [outcome |-> "Exception",
               msg |-> NamesCountMsg(args.names[1], args.scenarios),
               created |-> <<>>, calls |-> <<>>]
         ELSE LET names == IF args.names = None
                           THEN [i \in 1 .. Len(args.scenarios) |-> normpath(args.scenarios[i])]
                           ELSE args.names[1]
              IN  IF Len(names) < Len(args.scenarios)
                  THEN [outcome |-> "IndexError", msg |-> "list index out of range",
                        created |-> [i \in 1 .. Len(names) |->
                                        Scenario(args.scenarios[i], names[i])],
                        calls |-> <<>>]
                  ELSE LET scens == [i \in 1 .. Len(args.scenarios) |->
                                        Scenario(args.scenarios[i], names[i])]
                       IN  [outcome |-> "ok", msg |-> "", created |-> scens,
                            calls |-> <<[scenarios |-> scens,
                                         graph_dir |-> args.graph_dir,
                                         overwrite |-> args.overwrite]>>]

\* main() on the parsed arguments: the list of Scenario objects created and
\* the calls of graph_scenarios made.
compare_main(args) ==
    IF Len(args.scenarios) < 2
    THEN [outcome |-> "Exception", msg |-> NotEnoughMsg, created |-> <<>>, calls |-> <<>>]
    ELSE IF args.names # None /\ NamesCountCheck(args.names[1], args.scenarios)
         THEN [outcome |-> "Exception",
               msg |-> NamesCountMsg(args.names[1], args.scenarios),
               created |-> <<>>, calls |-> <<>>]
         ELSE LET names == IF args.names = None
                           THEN [i \in 1 .. Len(args.scenarios) |-> normpath(args.scenarios[i])]
                           ELSE args.names[1]
              IN  IF Len(names) < Len(args.scenarios)
                  THEN [outcome |-> "IndexError", msg |-> "list index out of range",
                        created |-> [i \in 1 .. Len(names) |->
                                        Scenario(args.scenarios[i], names[i])],
                        calls |-> <<>>]
                  ELSE LET scens == [i \in 1 .. Len(args.scenarios) |->
                                        Scenario(args.scenarios[i], names[i])]
                       IN  [outcome |-> "ok", msg |-> "", created |-> scens,
                            calls |-> <<[scenarios |-> scens,
                                         graph_dir |-> args.graph_dir,
                                         overwrite |-> args.overwrite]>>]

\* ------------------------------------------------------------------------
\* SpecCompare: one run of compare.main on a parsed command line.
\* ------------------------------------------------------------------------

\* Most scenario paths, and most names, on a command line.
MaxPaths == 3

CmpPaths == {<<"a">>, <<".", "b">>, <<"a", "..", "b">>, <<"a", "">>}

CmpNames == {<<"Low">>, <<"High">>}

\* nargs="+": at least one path, and at least one name when --names is given.
NonEmptyLists(S) == UNION {[1 .. n -> S] : n \in 1 .. MaxPaths}

InitCompare ==
    /\ pc = "cmp_ready"
    /\ outcome = "none"
    /\ excArg = ""
    /\ ScenIdle
    /\ tunnel = "absent"
    /\ db_connection = "absent"
    /\ db_cursor = "absent"
    /\ connectAttempts = 0
    /\ queries = 0
    /\ s_details = None
    /\ step = 0
    /\ announced = <<>>
    /\ files = {}
    /\ tabArgs = None
    /\ tabFile = None
    /\ \E paths \in NonEmptyLists(CmpPaths) :
       \E names \in {None} \cup {Some(l) : l \in NonEmptyLists(CmpNames)} :
       \E overwrite \in BOOLEAN :
           cmpArgs = Some([scenarios |-> paths, names |-> names,
                           graph_dir |-> None, overwrite |-> overwrite])
    /\ created = <<>>
    /\ graphCalls = <<>>
    /\ UtilsIdle

CompareMain ==
    /\ pc = "cmp_ready"
    /\ LET r == compare_main(cmpArgs[1])
       IN  /\ outcome' = r.outcome
           /\ excArg' = r.msg
           /\ created' = r.created
           /\ graphCalls' = r.calls
    /\ pc' = "cmp_done"
    /\ UNCHANGED <<scenVars, extractVars, tabVars, cmpArgs, utilVars>>

NextCompare == CompareMain

SpecCompare == InitCompare /\ [][NextCompare]_vars

NamesGivenWithOtherCount ==
    /\ cmpArgs[1].names # None
    /\ Len(cmpArgs[1].names[1]) # Len(cmpArgs[1].scenarios)

RaisedWithBothCounts ==
    /\ outcome = "Exception"
    /\ excArg = "Gave " \o ToString(Len(cmpArgs[1].names[1]))
                    \o " scenario names but there were "
                    \o ToString(Len(cmpArgs[1].scenarios)) \o " scenarios."
    /\ created = <<>>
    /\ graphCalls = <<>>

C16_FewerThanTwoScenariosRaises ==
    (pc = "cmp_done" /\ Len(cmpArgs[1].scenarios) < 2) =>
        /\ outcome = "Exception"
        /\ excArg = "Didn't pass in enough scenarios to compare"
        /\ created = <<>>
        /\ graphCalls = <<>>

C16_Witness ==
    /\ pc = "cmp_done"
    /\ cmpArgs[1].scenarios = <<<<"a">>>>
    /\ cmpArgs[1].names = None
    /\ outcome = "Exception"
    /\ excArg = NotEnoughMsg

\* The normal form of each path of CmpPaths: a, ./b, a/../b and a/.
Normalized(path) ==
    CASE path = <<"a">>            -> <<"a">>
      [] path = <<".", "b">>       -> <<"b">>
      [] path = <<"a", "..", "b">> -> <<"b">>
      [] path = <<"a", "">>        -> <<"a">>

\* C17: in a run of compare.main that succeeds, one Scenario is created per
\* scenario path, in argument order, the i-th with the i-th name, which is the
\* normal form of the i-th path when --names is not given; graph_scenarios
\* gets that list.
C17_OneScenarioPerPathInOrder ==
    (pc = "cmp_done" /\ outcome = "ok") =>
        /\ Len(created) = Len(cmpArgs[1].scenarios)
        /\ \A i \in DOMAIN created :
               /\ created[i].rel_path = cmpArgs[1].scenarios[i]
               /\ created[i].name = IF cmpArgs[1].names = None
                                    THEN Normalized(cmpArgs[1].scenarios[i])
                                    ELSE cmpArgs[1].names[1][i]
        /\ Len(graphCalls) = 1
        /\ graphCalls[1].scenarios = created

C17_Witness ==
    /\ pc = "cmp_done"
    /\ outcome = "ok"
    /\ cmpArgs[1].names = None
    /\ cmpArgs[1].scenarios = <<<<"a", "">>, <<".", "b">>, <<"a", "..", "b">>>>
    /\ created = <<[rel_path |-> <<"a", "">>, name |-> <<"a">>],
                   [rel_path |-> <<".", "b">>, name |-> <<"b">>],
                   [rel_path |-> <<"a", "..", "b">>, name |-> <<"b">>]>>

C17_WitnessNames ==
    /\ pc = "cmp_done"
    /\ outcome = "ok"
    /\ cmpArgs[1].names = Some(<<<<"High">>, <<"Low">>>>)
    /\ created[1].name = <<"High">>
    /\ created[2].name = <<"Low">>

\* ------------------------------------------------------------------------
\* tools/new.py
\*
\* A directory is a function from file name to content, "absent" for a file
\* that does not exist.
\* ------------------------------------------------------------------------

Absent == "absent"

\* shutil.copyfile(templates/template_name, cwd/template_name): opening a
\* source that does not exist raises before the destination is touched.
copy_template_to_workdir(template_name, tpl, wd) ==
    IF tpl[template_name] = Absent
    THEN [outcome |-> "FileNotFoundError", workdir |-> wd, copies |-> <<>>]
    ELSE [outcome |-> "ok",
          workdir |-> [wd EXCEPT ![template_name] = tpl[template_name]],
          copies  |-> <<[src |-> template_name, dst |-> template_name]>>]

create_run_config(tpl, wd) == copy_template_to_workdir("config.yaml", tpl, wd)

create_sampling_config_CopiesConfig(tpl, wd) ==
    copy_template_to_workdir("config.yaml", tpl, wd)

create_sampling_config(tpl, wd) == copy_template_to_workdir("sampling.yaml", tpl, wd)

\* main() with args.type = type, one of argparse's choices.
new_main(type, tpl, wd) ==
    IF type = "run"
    THEN create_run_config(tpl, wd)
    ELSE IF type = "sampling_config"
         THEN create_sampling_config(tpl, wd)
         ELSE [outcome |-> "ok", workdir |-> wd, copies |-> <<>>]

\* ------------------------------------------------------------------------
\* SpecNew: invocations of new.py in one working directory.
\* ------------------------------------------------------------------------

\* Most invocations of new.py in the working directory.
MaxInvocations == 3

TemplateNames == {"config.yaml", "sampling.yaml"}

NewTypes == {"run", "sampling_config"}

TemplateDirs ==
    {[n \in TemplateNames |-> IF n \in present THEN "template " \o n ELSE Absent] :
        present \in SUBSET TemplateNames}

WorkDirs == [TemplateNames -> {Absent, "edited by the user", "left by another tool"}]

InitNew ==
    /\ pc = "new_ready"
    /\ outcome = "none"
    /\ excArg = ""
    /\ ScenIdle
    /\ tunnel = "absent"
    /\ db_connection = "absent"
    /\ db_cursor = "absent"
    /\ connectAttempts = 0
    /\ queries = 0
    /\ s_details = None
    /\ step = 0
    /\ announced = <<>>
    /\ files = {}
    /\ tabArgs = None
    /\ tabFile = None
    /\ cmpArgs = None
    /\ created = <<>>
    /\ graphCalls = <<>>
    /\ SetIdle
    /\ InfoIdle
    /\ newType = "none"
    /\ templates \in TemplateDirs
    /\ workdir \in WorkDirs
    /\ copyLog = <<>>

NewMain(type) ==
    /\ pc \in {"new_ready", "new_done"}
    /\ Len(copyLog) < MaxInvocations
    /\ LET r == new_main(type, templates, workdir)
       IN  /\ outcome' = r.outcome
           /\ workdir' = r.workdir
           /\ copyLog' = copyLog \o r.copies
    /\ newType' = type
    /\ pc' = "new_done"
    /\ UNCHANGED <<excArg, templates, scenVars, extractVars, tabVars, cmpVars, setVars,
                   infoVars>>

NextNew == \E type \in NewTypes : NewMain(type)

SpecNew == InitNew /\ [][NextNew]_vars

\* The template that belongs to a type, and the other one.
TemplateOf(type) == IF type = "run" THEN "config.yaml" ELSE "sampling.yaml"

OtherTemplate(type) == IF type = "run" THEN "sampling.yaml" ELSE "config.yaml"

\* C12: an invocation that completes makes exactly one copy, of the template
\* of its type into the working directory under the template's own name
\* (config.yaml for 'run', sampling.yaml for 'sampling_config'), and no
\* invocation changes the destination of the other template.
C12_CopiesExactlyOneTemplate ==
    [][pc' = "new_done" =>
         /\ workdir'[OtherTemplate(newType')] = workdir[OtherTemplate(newType')]
         /\ outcome' = "ok" =>
                /\ Len(copyLog') = Len(copyLog) + 1
                /\ copyLog'[Len(copyLog')] =
                       [src |-> TemplateOf(newType'), dst |-> TemplateOf(newType')]
                /\ workdir'[TemplateOf(newType')] = templates[TemplateOf(newType')]
                /\ workdir'[TemplateOf(newType')] # Absent]_vars

C12_Witness ==
    /\ pc = "new_done"
    /\ outcome = "ok"
    /\ newType = "sampling_config"
    /\ copyLog = <<[src |-> "sampling.yaml", dst |-> "sampling.yaml"]>>
    /\ workdir["sampling.yaml"] = "template sampling.yaml"
    /\ workdir["config.yaml"] = "edited by the user"

\* ------------------------------------------------------------------------
\* utilities/results_info.py
\*
\* Names, scenarios and values are strings, whose str() is the string itself.
\* A report is the sequence of its lines; a line is the tuple of its fields,
\* one field for a line of plain text and one per column for a table line.
\* ------------------------------------------------------------------------

\* _general_info_data.append((name, val))
add_general_info(data, name, val) == Append(data, <<name, val>>)

\* The DataFrame with the cell (name, scenario) set unless it is set already.
add_results_info_KeepsFirst(df, name, scenario, value) ==
    [index   |-> IF name \in Range(df.index) THEN df.index ELSE Append(df.index, name),
     columns |-> IF scenario \in Range(df.columns) THEN df.columns
                 ELSE Append(df.columns, scenario),
     cells   |-> [p \in DOMAIN df.cells \cup {<<name, scenario>>} |->
                     IF p \in DOMAIN df.cells THEN df.cells[p] ELSE value]]

\* _scenario_info_data.loc[name, scenario] = value: the row and the column
\* are added at the end when they are new, and the cell is overwritten.
add_results_info(df, name, scenario, value) ==
    [index   |-> IF name \in Range(df.index) THEN df.index ELSE Append(df.index, name),
     columns |-> IF scenario \in Range(df.columns) THEN df.columns
                 ELSE Append(df.columns, scenario),
     cells   |-> [p \in DOMAIN df.cells \cup {<<name, scenario>>} |->
                     IF p = <<name, scenario>> THEN value ELSE df.cells[p]]]

\* The lines of "\n".join(strings): the empty text is one empty line.
JoinedLines(strings) ==
    IF strings = <<>> THEN <<<<"">>>> ELSE [k \in DOMAIN strings |-> <<strings[k]>>]

\* tabulate(DataFrame, headers=columns): a line of headers, padded on the left
\* for the index, a rule, and a line per row with 'nan' in the cells never set;
\* nothing for an empty frame.
tabulate(df) ==
    IF df.index = <<>>
    THEN <<>>
    ELSE <<(<<"">> \o df.columns), <<"----">>>> \o
         [r \in DOMAIN df.index |->
             <<df.index[r]>> \o
             [c \in DOMAIN df.columns |->
                 IF <<df.index[r], df.columns[c]>> \in DOMAIN df.cells
                 THEN df.cells[<<df.index[r], df.columns[c]>>]
                 ELSE "nan"]]

\* The lines save_info writes.
save_info(general, df) ==
    <<<<"##########">>, <<" GENERAL">>, <<"##########">>, <<"">>>>
        \o JoinedLines([k \in DOMAIN general |-> general[k][1] \o ": " \o general[k][2]])
        \o <<<<"">>>>
        \o <<<<"##########">>, <<" RESULTS">>, <<"##########">>, <<"">>>>
        \o tabulate(df)

\* ------------------------------------------------------------------------
\* SpecInfo: calls of add_general_info, add_results_info and save_info in any
\* order.
\* ------------------------------------------------------------------------

\* Most calls made on results_info.
MaxInfoCalls == 3

GeneralNames == {"solver", "time"}

ResultNames == {"cost", "time"}

InfoScenarios == {"a", "b"}

InfoValues == {"1", "2"}

InitInfo ==
    /\ pc = "info"
    /\ outcome = "none"
    /\ excArg = ""
    /\ ScenIdle
    /\ tunnel = "absent"
    /\ db_connection = "absent"
    /\ db_cursor = "absent"
    /\ connectAttempts = 0
    /\ queries = 0
    /\ s_details = None
    /\ step = 0
    /\ announced = <<>>
    /\ files = {}
    /\ tabArgs = None
    /\ tabFile = None
    /\ cmpArgs = None
    /\ created = <<>>
    /\ graphCalls = <<>>
    /\ SetIdle
    /\ NewIdle
    /\ InfoIdle

InfoFrame == <<pc, outcome, excArg, scenVars, extractVars, tabVars, cmpVars, setVars, newVars>>

AddGeneralInfo(name, val) ==
    /\ pc = "info"
    /\ Len(infoCalls) < MaxInfoCalls
    /\ general_info_data' = add_general_info(general_info_data, name, val)
    /\ infoCalls' = Append(infoCalls, [op |-> "add_general_info", name |-> name,
                                       scenario |-> "", value |-> val])
    /\ UNCHANGED <<scenario_info_data, reports, InfoFrame>>

AddResultsInfo(name, scenario, value) ==
    /\ pc = "info"
    /\ Len(infoCalls) < MaxInfoCalls
    /\ scenario_info_data' = add_results_info(scenario_info_data, name, scenario, value)
    /\ infoCalls' = Append(infoCalls, [op |-> "add_results_info", name |-> name,
                                       scenario |-> scenario, value |-> value])
    /\ UNCHANGED <<general_info_data, reports, InfoFrame>>

SaveInfo ==
    /\ pc = "info"
    /\ Len(infoCalls) < MaxInfoCalls
    /\ reports' = Append(reports, save_info(general_info_data, scenario_info_data))
    /\ infoCalls' = Append(infoCalls, [op |-> "save_info", name |-> "",
                                       scenario |-> "", value |-> ""])
    /\ UNCHANGED <<general_info_data, scenario_info_data, InfoFrame>>

NextInfo ==
    \/ \E name \in GeneralNames : \E val \in InfoValues : AddGeneralInfo(name, val)
    \/ \E name \in ResultNames : \E scenario \in InfoScenarios : \E value \in InfoValues :
           AddResultsInfo(name, scenario, value)
    \/ SaveInfo

SpecInfo == InitInfo /\ [][NextInfo]_vars

\* The position of the first line of a report that equals line, 0 if none.
LinePosition(report, line) ==
    IF \E k \in DOMAIN report : report[k] = line
    THEN CHOOSE k \in DOMAIN report :
             report[k] = line /\ \A j \in 1 .. (k - 1) : report[j] # line
    ELSE 0

\* The calls of one operation, in call order.
CallsOf(op) == SelectSeq(infoCalls, LAMBDA c : c.op = op)

\* The position in infoCalls of the last add_results_info call for a pair.
LastCallFor(name, scenario) ==
    CHOOSE k \in DOMAIN infoCalls :
        /\ infoCalls[k].op = "add_results_info"
        /\ infoCalls[k].name = name
        /\ infoCalls[k].scenario = scenario
        /\ \A j \in (k + 1) .. Len(infoCalls) :
               ~(infoCalls[j].op = "add_results_info" /\ infoCalls[j].name = name
                     /\ infoCalls[j].scenario = scenario)

\* The report just written agrees with the calls made before it.
LastReportMatchesCalls ==
    LET report  == reports[Len(reports)]
        general == CallsOf("add_general_info")
        g       == LinePosition(report, <<" GENERAL">>)
        r       == LinePosition(report, <<" RESULTS">>)
        first   == 5
        table   == r + 3
    IN  /\ g = 2
        /\ r > g
        /\ general # <<>> =>
               /\ r = first + Len(general) + 2
               /\ \A k \in DOMAIN general :
                      report[first + k - 1] =
                          <<general[k].name \o ": " \o general[k].value>>
        /\ \A c \in Range(CallsOf("add_results_info")) :
               \E row \in (table + 2) .. Len(report) :
               \E col \in 2 .. Len(report[table]) :
                   /\ report[row][1] = c.name
                   /\ report[table][col] = c.scenario
                   /\ report[row][col] = infoCalls[LastCallFor(c.name, c.scenario)].value
                   /\ \A other \in (table + 2) .. Len(report) :
                          report[other][1] = c.name => other = row

\* C13: the report save_info writes has the GENERAL section before the
\* RESULTS section, one 'name: value' line per add_general_info call in call
\* order with duplicates kept, and in the RESULTS table the value of the last
\* add_results_info call for each (name, scenario) pair; save_info leaves the
\* accumulated data as it was, so two consecutive calls write the same report.
C13_ReportHoldsTheAccumulatedData ==
    (infoCalls # <<>> /\ infoCalls[Len(infoCalls)].op = "save_info") =>
        /\ Len(reports) = Len(CallsOf("save_info"))
        /\ LastReportMatchesCalls
        /\ general_info_data =
               [k \in DOMAIN CallsOf("add_general_info") |->
                   <<CallsOf("add_general_info")[k].name, CallsOf("add_general_info")[k].value>>]
        /\ (Len(infoCalls) >= 2 /\ infoCalls[Len(infoCalls) - 1].op = "save_info") =>
               reports[Len(reports)] = reports[Len(reports) - 1]

C13_Witness ==
    /\ Len(infoCalls) = 3
    /\ infoCalls[1].op = "add_results_info"
    /\ infoCalls[2].op = "add_results_info"
    /\ infoCalls[1].name = infoCalls[2].name
    /\ infoCalls[1].scenario = infoCalls[2].scenario
    /\ infoCalls[1].value # infoCalls[2].value
    /\ infoCalls[3].op = "save_info"
    /\ Len(reports) = 1

C13_WitnessDuplicates ==
    /\ Len(infoCalls) = 3
    /\ infoCalls[1].op = "add_general_info"
    /\ infoCalls[2] = infoCalls[1]
    /\ infoCalls[3].op = "save_info"
    /\ reports[1][5] = reports[1][6]

C13_WitnessTwice ==
    /\ Len(infoCalls) = 3
    /\ infoCalls[1].op = "add_results_info"
    /\ infoCalls[2].op = "save_info"
    /\ infoCalls[3].op = "save_info"
    /\ Len(reports) = 2

\* ------------------------------------------------------------------------
\* GurobiMultiScenarioSolver._set_instance (the same in both copies)
\* ------------------------------------------------------------------------

BaseSetInstance == "GurobiDirect._set_instance"

\* What the base class's _set_instance returns.
BaseResults == "results of GurobiDirect._set_instance"

\* `return results` after `self._add_scenarios(model)` ended as r: the
\* results are returned unless _add_scenarios raised.
AfterBase(calls, results, r) ==
    [calls   |-> Append(calls, "_add_scenarios"),
     result  |-> IF r.outcome = "ok" THEN results ELSE None,
     params  |-> r.params, value |-> r.value, scens |-> r.scens, gm |-> r.gm,
     outcome |-> r.outcome, excArg |-> r.excArg]

\* What _set_instance_AddFirst does after _add_scenarios ended as r.
AfterAdd(baseOk, r) ==
    IF r.outcome # "ok"
    THEN [calls |-> <<"_add_scenarios">>, result |-> None,
          params |-> r.params, value |-> r.value, scens |-> r.scens, gm |-> r.gm,
          outcome |-> r.outcome, excArg |-> r.excArg]
    ELSE [calls |-> <<"_add_scenarios", BaseSetInstance>>,
          result |-> IF baseOk THEN Some(BaseResults) ELSE None,
          params |-> r.params, value |-> r.value, scens |-> r.scens,
          gm |-> IF baseOk THEN NewGurobiModel ELSE r.gm,
          outcome |-> IF baseOk THEN "ok" ELSE "ApplicationError",
          excArg |-> IF baseOk THEN "" ELSE BaseSetInstance]

\* _set_instance running _add_scenarios before the base class's method.
_set_instance_AddFirst(v, baseOk, pv, vStale, vValue, scens, gm) ==
    AfterAdd(baseOk, _add_scenarios(v, pv, vStale, vValue, scens, gm))

\* _set_instance(model, kwds): baseOk is FALSE when the base class's method
\* raises, which ends _set_instance there; otherwise the base class has
\* created the gurobipy model, _add_scenarios runs on it and the base class's
\* results are returned.
_set_instance(v, baseOk, pv, vStale, vValue, scens, gm) ==
    IF ~baseOk
    THEN [calls |-> <<BaseSetInstance>>, result |-> None,
          params |-> pv, value |-> vValue, scens |-> scens, gm |-> gm,
          outcome |-> "ApplicationError", excArg |-> BaseSetInstance]
    ELSE AfterBase(<<BaseSetInstance>>, Some(BaseResults),
                   _add_scenarios(v, pv, vStale, vValue, scens, NewGurobiModel))

\* ------------------------------------------------------------------------
\* SpecSet: pyomo calls _set_instance on a solver constructed with a list of
\* scenarios.  The gurobipy model is the one the base class creates.
\* ------------------------------------------------------------------------

InitSet ==
    /\ pc = "set_ready"
    /\ outcome = "none"
    /\ excArg = ""
    /\ variant \in Variants
    /\ paramValue \in ParamValuations
    /\ varStale = [var \in Vars |-> TRUE]
    /\ varValue = [var \in Vars |-> None]
    /\ referenced = [var \in Vars |-> 1]
    /\ scenarios \in ScenarioLists(variant, 2, SingleChangeLists)
    /\ gurobi_model = NewGurobiModel
    /\ stack = <<>>
    /\ vars_to_load = None
    /\ csvRows = <<>>
    /\ modScenarios = None
    /\ tunnel = "absent"
    /\ db_connection = "absent"
    /\ db_cursor = "absent"
    /\ connectAttempts = 0
    /\ queries = 0
    /\ s_details = None
    /\ step = 0
    /\ announced = <<>>
    /\ files = {}
    /\ tabArgs = None
    /\ tabFile = None
    /\ cmpArgs = None
    /\ created = <<>>
    /\ graphCalls = <<>>
    /\ SetIdle
    /\ NewIdle
    /\ InfoIdle

SetInstance(baseOk) ==
    /\ pc = "set_ready"
    /\ LET r == _set_instance(variant, baseOk, paramValue, varStale, varValue,
                              scenarios, gurobi_model)
       IN  /\ setCalls' = r.calls
           /\ setResult' = r.result
           /\ paramValue' = r.params
           /\ varValue' = r.value
           /\ scenarios' = r.scens
           /\ gurobi_model' = r.gm
           /\ outcome' = r.outcome
           /\ excArg' = r.excArg
    /\ pc' = "set_done"
    /\ UNCHANGED <<variant, varStale, referenced, stack, vars_to_load, csvRows,
                   modScenarios>>
    /\ UNCHANGED <<extractVars, tabVars, cmpVars, newVars, infoVars>>

NextSet == \E baseOk \in BOOLEAN : SetInstance(baseOk)

SpecSet == InitSet /\ [][NextSet]_vars

BaseRaised == outcome = "ApplicationError" /\ excArg = BaseSetInstance

\* C14: _set_instance calls the base class's _set_instance first; if that
\* raises, _add_scenarios is not run and nothing is returned; otherwise
\* _add_scenarios runs after it, exactly once, and when _add_scenarios does
\* not raise either the base class's results are returned.
C14_BaseFirstThenAddScenariosOnce ==
    pc = "set_done" =>
        /\ setCalls # <<>>
        /\ setCalls[1] = BaseSetInstance
        /\ BaseRaised =>
               /\ setCalls = <<BaseSetInstance>>
               /\ gurobi_model = NewGurobiModel
               /\ setResult = None
        /\ ~BaseRaised =>
               /\ setCalls = <<BaseSetInstance, "_add_scenarios">>
               /\ gurobi_model.NumScenarios = Len(scenarios)
               /\ outcome = "ok" => setResult = Some(BaseResults)
               /\ outcome # "ok" => setResult = None

C14_Witness ==
    /\ pc = "set_done"
    /\ outcome = "ok"
    /\ Len(scenarios) = 2
    /\ setCalls = <<BaseSetInstance, "_add_scenarios">>
    /\ setResult = Some(BaseResults)
    /\ gurobi_model.ScenNName[1] = Some("s1")

C14_WitnessBaseRaises ==
    /\ pc = "set_done"
    /\ BaseRaised
    /\ setCalls = <<BaseSetInstance>>

\* ------------------------------------------------------------------------
\* SpecUse: on a freshly built model (every variable stale) the solver has
\* solved two scenarios; _load_vars is called with any list of variables or
\* None, any number of times, and user code enters and leaves a scenario
\* with `with scenario(model):` once _load_vars has run.
\* ------------------------------------------------------------------------

InitUse ==
    /\ pc = "use"
    /\ outcome = "none"
    /\ excArg = ""
    /\ variant \in Variants
    /\ paramValue = [k \in ParamKeys |-> 1]
    /\ varStale = [var \in Vars |-> TRUE]
    /\ varValue = [var \in Vars |-> None]
    /\ referenced \in [Vars -> {0, 1}]
    /\ scenarios = <<MultiScenario(variant, ScenarioName(0), <<>>),
                     MultiScenario(variant, ScenarioName(1), <<>>)>>
    /\ \E nx \in [0 .. 1 -> [Vars -> SolutionValues]] :
           gurobi_model = [NewGurobiModel EXCEPT
               !.NumScenarios = 2,
               !.ScenNX = [i \in Slots |-> IF i < 2 THEN nx[i]
                                           ELSE [var \in Vars |-> 0]]]
    /\ stack = <<>>
    /\ vars_to_load = None
    /\ csvRows = <<>>
    /\ modScenarios = None
    /\ ToolsIdle

\* _load_vars between two with-blocks.
LoadForUse(vtl) ==
    /\ pc = "use"
    /\ stack = <<>>
    /\ LET r == _load_vars(variant, vtl, referenced, varStale, scenarios, gurobi_model)
       IN  /\ varStale' = r.stale
           /\ scenarios' = r.scens
           /\ gurobi_model' = r.gm
    /\ vars_to_load' = vtl
    /\ outcome' = "loaded"
    /\ UNCHANGED <<pc, excArg, variant, paramValue, varValue, referenced, stack,
                   csvRows, modScenarios>>
    /\ UNCHANGED toolVars

\* with scenarios[i](model): after _load_vars has run; when __enter__ raises
\* the block is not entered.
EnterLoaded(i) ==
    /\ pc = "use"
    /\ outcome # "none"
    /\ stack = <<>>
    /\ LET en == __enter__(variant, __call__(scenarios[i]), paramValue, varStale, varValue)
       IN  /\ scenarios' = [scenarios EXCEPT ![i] = en.scen]
           /\ paramValue' = en.params
           /\ varValue' = en.varValue
           /\ outcome' = IF en.err = "none" THEN "entered" ELSE en.err
           /\ stack' = IF en.err = "none"
                       THEN <<[scenario |-> i, saved |-> paramValue]>>
                       ELSE stack
    /\ UNCHANGED <<pc, excArg, variant, varStale, referenced, gurobi_model,
                   vars_to_load, csvRows, modScenarios>>
    /\ UNCHANGED toolVars

\* The end of the with-block: __exit__.
LeaveLoaded ==
    /\ pc = "use"
    /\ stack # <<>>
    /\ LET i  == stack[1].scenario
           ex == __exit__(variant, scenarios[i], paramValue, varStale, varValue)
       IN  /\ scenarios' = [scenarios EXCEPT ![i] = ex.scen]
           /\ paramValue' = ex.params
           /\ varValue' = ex.varValue
    /\ stack' = <<>>
    /\ outcome' = "left"
    /\ UNCHANGED <<pc, excArg, variant, varStale, referenced, gurobi_model,
                   vars_to_load, csvRows, modScenarios>>
    /\ UNCHANGED toolVars

NextUse ==
    \/ \E vtl \in {None} \cup {Some(l) : l \in VarLists} : LoadForUse(vtl)
    \/ \E i \in 1 .. 2 : EnterLoaded(i)
    \/ LeaveLoaded

SpecUse == InitUse /\ [][NextUse]_vars

\* C22: once _load_vars has run, on whatever list of variables, entering a
\* scenario completes without error and gives every variable that is not
\* stale the value the solver holds for it in that scenario's slot, and
\* leaving the scenario sets the value of every such variable to None.
C22_EnterAfterLoadVarsGivesLoadedValues ==
    [][/\ (stack = <<>> /\ outcome' \notin {"loaded", "left"}) =>
              /\ outcome' = "entered"
              /\ \A var \in Vars :
                     ~varStale[var] =>
                         varValue'[var] =
                             Some(gurobi_model.ScenNX[stack'[1].scenario - 1][var])
       /\ outcome' = "left" =>
              \A var \in Vars : ~varStale[var] => varValue'[var] = None]_vars

====
